---- MODULE Spec2Model ----
(***************************************************************************)
(* Chunked spatial index, viewport culling and frame-stamp deduplication   *)
(* of the tile-map renderer (src/src/spatial/index.rs,                     *)
(* src/src/render/cull.rs, src/src/map.rs).                                *)
(*                                                                         *)
(* World coordinates are f32 in the source.  They are modelled as          *)
(* fixed-point integers counting 1/Sub of a world unit, so that the        *)
(* truncating cast `as i32` is a real conversion.                          *)
(***************************************************************************)
EXTENDS Integers, Sequences, FiniteSets, TLC

VARIABLES
    index,            \* GlobalIndex: buckets, handles, next_handle
    view,             \* result of the last visibility query on the index
    tilesets,         \* Map.tilesets
    gid_lut,          \* Map.gid_lut
    object_layers,    \* Map.object_layers
    tile_layers,      \* Map.tile_layers
    draw_order,       \* Map.draw_order
    layer_kind_by_id, \* Map.layer_kind_by_id
    renderer,         \* Map.renderer: debug_draw, cull_padding, frame_stamp
    last,             \* the last call: its name, arguments, result and draw log
    stamp_rule        \* history: every *_with_stamp call so far passed the current frame stamp

vars == <<index, view, tilesets, gid_lut, object_layers, tile_layers,
          draw_order, layer_kind_by_id, renderer, last, stamp_rule>>

mapVars == <<tilesets, gid_lut, object_layers, tile_layers,
             draw_order, layer_kind_by_id, renderer, stamp_rule>>

----------------------------------------------------------------------------
(* Program constants *)

CHUNK_SIZE == 256
CULL_MARGIN_CHUNKS == 1
GID_MASK == 536870911
LUT_NONE == 65535

(* Sub-units per world unit of the fixed-point f32 model. *)
Sub == 2

(* Bounds of the model *)

\* width of the stamp word: StampMax stands for u32::MAX
StampMax == 2
\* add_tile calls on one index
MaxTiles == 2
\* insert_object calls on one index
MaxRecs == 2

----------------------------------------------------------------------------
(* Small helpers *)

Range(s) == {s[i] : i \in DOMAIN s}

Pt(x, y) == [x |-> x, y |-> y]

\* a whole number of world units as an f32
W(n) == n * Sub

RECURSIVE Perms(_)
Perms(S) ==
    IF S = {} THEN {<<>>}
    ELSE UNION {{<<e>> \o p : p \in Perms(S \ {e})} : e \in S}

\* f: the map with key k set to v (HashMap insert / entry().or_default() store)
MapPut(f, k, v) == [j \in DOMAIN f \cup {k} |-> IF j = k THEN v ELSE f[j]]

EmptyMap == [j \in {} |-> 0]

----------------------------------------------------------------------------
(* Chunk addressing: src/src/spatial/index.rs *)

\* `v as i32` on an f32: truncation toward zero
AsI32(v) == IF v >= 0 THEN v \div Sub ELSE -((-v) \div Sub)

\* i32::div_euclid / rem_euclid with a positive divisor
DivEuclid(a, b) == a \div b
RemEuclid(a, b) == a % b

world_to_chunk(p) ==
    [x |-> DivEuclid(AsI32(p.x), CHUNK_SIZE),
     y |-> DivEuclid(AsI32(p.y), CHUNK_SIZE)]

\* the remainder taken with `%`, which keeps the sign of the dividend
rel_truncating(p) ==
    LET Rem(a) == IF a >= 0 THEN a % CHUNK_SIZE ELSE -((-a) % CHUNK_SIZE)
    IN  Pt(W(Rem(AsI32(p.x))), W(Rem(AsI32(p.y))))

rel(p) ==
    Pt(W(RemEuclid(AsI32(p.x), CHUNK_SIZE)),
       W(RemEuclid(AsI32(p.y), CHUNK_SIZE)))

\* vec2((cc.x * CHUNK_SIZE) as f32, (cc.y * CHUNK_SIZE) as f32)
chunk_origin(cc) == Pt(W(cc.x * CHUNK_SIZE), W(cc.y * CHUNK_SIZE))

----------------------------------------------------------------------------
(* Global index: src/src/spatial/index.rs *)

LayerBucketDefault == [tiles |-> <<>>, objects |-> <<>>]

GlobalIndexNew == [buckets |-> EmptyMap, handles |-> <<>>, next_handle |-> 0]

\* buckets.entry(cc).or_default().layers.entry(layer).or_default()
LayersOf(g, cc) == IF cc \in DOMAIN g.buckets THEN g.buckets[cc] ELSE EmptyMap

BucketOf(g, cc, layer) ==
    IF layer \in DOMAIN LayersOf(g, cc) THEN LayersOf(g, cc)[layer]
    ELSE LayerBucketDefault

\* Option<TileLoc>
None == [some |-> FALSE]
Some(v) == [some |-> TRUE, val |-> v]

\* the handle slot is pushed but the counter is not advanced
alloc_handle_no_increment(g) ==
    [g EXCEPT !.handles = Append(g.handles, None)]

alloc_handle(g) ==
    [g EXCEPT !.next_handle = g.next_handle + 1,
              !.handles = Append(g.handles, None)]

\* the record is pushed but the location descriptor of the handle is not stored
add_tile_no_descriptor(g, id, layer, world) ==
    LET cc     == world_to_chunk(world)
        handle == g.next_handle
        g1     == alloc_handle(g)
        vec    == BucketOf(g1, cc, layer).tiles
        bucket == [BucketOf(g1, cc, layer) EXCEPT
                     !.tiles = Append(vec, [handle |-> handle, id |-> id,
                                            rel_pos |-> rel(world)])]
    IN  [g1 EXCEPT
           !.buckets = MapPut(g1.buckets, cc, MapPut(LayersOf(g1, cc), layer, bucket))]

add_tile(g, id, layer, world) ==
    LET cc     == world_to_chunk(world)
        handle == g.next_handle
        g1     == alloc_handle(g)
        vec    == BucketOf(g1, cc, layer).tiles
        idx    == Len(vec)
        bucket == [BucketOf(g1, cc, layer) EXCEPT
                     !.tiles = Append(vec, [handle |-> handle, id |-> id,
                                            rel_pos |-> rel(world)])]
    IN  [g1 EXCEPT
           !.buckets = MapPut(g1.buckets, cc, MapPut(LayersOf(g1, cc), layer, bucket)),
           !.handles[handle + 1] = Some([chunk |-> cc, layer |-> layer, index |-> idx])]

\* the layer bucket is replaced by a new one that holds the object records only
insert_object_fresh_bucket(g, layer, chunk, object_rec) ==
    LET bucket == [LayerBucketDefault EXCEPT
                     !.objects = Append(BucketOf(g, chunk, layer).objects, object_rec)]
    IN  [g EXCEPT
           !.buckets = MapPut(g.buckets, chunk, MapPut(LayersOf(g, chunk), layer, bucket))]

insert_object(g, layer, chunk, object_rec) ==
    LET bucket == [BucketOf(g, chunk, layer) EXCEPT
                     !.objects = Append(BucketOf(g, chunk, layer).objects, object_rec)]
    IN  [g EXCEPT
           !.buckets = MapPut(g.buckets, chunk, MapPut(LayersOf(g, chunk), layer, bucket))]

----------------------------------------------------------------------------
(* Culling: src/src/render/cull.rs *)

\* the sort key (c.coord.y, c.coord.x), compared as a tuple
KeyLE(a, b) == a.y < b.y \/ (a.y = b.y /\ a.x <= b.x)
KeyLT(a, b) == a.y < b.y \/ (a.y = b.y /\ a.x < b.x)

RECURSIVE InsertByKey(_, _)
InsertByKey(s, e) ==
    IF s = <<>> THEN <<e>>
    ELSE IF KeyLE(Head(s).coord, e.coord)
         THEN <<Head(s)>> \o InsertByKey(Tail(s), e)
         ELSE <<e>> \o s

\* a sort by the key (x, y)
RECURSIVE InsertByKeyXY(_, _)
InsertByKeyXY(s, e) ==
    IF s = <<>> THEN <<e>>
    ELSE IF Head(s).coord.x < e.coord.x
            \/ (Head(s).coord.x = e.coord.x /\ Head(s).coord.y <= e.coord.y)
         THEN <<Head(s)>> \o InsertByKeyXY(Tail(s), e)
         ELSE <<e>> \o s

RECURSIVE SortByKeyXY(_)
SortByKeyXY(s) ==
    IF s = <<>> THEN <<>>
    ELSE InsertByKeyXY(SortByKeyXY(SubSeq(s, 1, Len(s) - 1)), s[Len(s)])

\* chunks.sort_by_key(|c| (c.coord.y, c.coord.x)): a stable sort
RECURSIVE SortByKey(_)
SortByKey(s) ==
    IF s = <<>> THEN <<>>
    ELSE InsertByKey(SortByKey(SubSeq(s, 1, Len(s) - 1)), s[Len(s)])

InChunkRect(c, cx_min, cx_max, cy_min, cy_max) ==
    c.x >= cx_min /\ c.x <= cx_max /\ c.y >= cy_min /\ c.y <= cy_max

\* every chunk of the index, whatever the rectangle
RECURSIVE CollectAll(_, _, _, _, _, _)
CollectAll(g, order, cx_min, cx_max, cy_min, cy_max) ==
    IF order = <<>> THEN <<>>
    ELSE <<[coord |-> Head(order), layers |-> g.buckets[Head(order)]]>>
         \o CollectAll(g, Tail(order), cx_min, cx_max, cy_min, cy_max)

\* for (&coord, bucket) in &g.buckets { if ... { chunks.push(..) } }
\* `order` is the iteration order of the hash map
RECURSIVE CollectChunks(_, _, _, _, _, _)
CollectChunks(g, order, cx_min, cx_max, cy_min, cy_max) ==
    IF order = <<>> THEN <<>>
    ELSE LET coord == Head(order)
             rest  == CollectChunks(g, Tail(order), cx_min, cx_max, cy_min, cy_max)
         IN  IF InChunkRect(coord, cx_min, cx_max, cy_min, cy_max)
             THEN <<[coord |-> coord, layers |-> g.buckets[coord]]>> \o rest
             ELSE rest

Min(a, b) == IF a < b THEN a ELSE b
Max(a, b) == IF a > b THEN a ELSE b

\* the rectangle query without the margin
query_visible_rect_no_margin(g, order, view_min, view_max) ==
    LET cx0 == DivEuclid(AsI32(view_min.x), CHUNK_SIZE)
        cy0 == DivEuclid(AsI32(view_min.y), CHUNK_SIZE)
        cx1 == DivEuclid(AsI32(view_max.x), CHUNK_SIZE)
        cy1 == DivEuclid(AsI32(view_max.y), CHUNK_SIZE)
    IN  [chunks |-> SortByKey(CollectChunks(g, order,
                        IF cx0 > cx1 THEN cx1 ELSE cx0, IF cx0 > cx1 THEN cx0 ELSE cx1,
                        IF cy0 > cy1 THEN cy1 ELSE cy0, IF cy0 > cy1 THEN cy0 ELSE cy1))]

query_visible_rect(g, order, view_min, view_max) ==
    LET cx0 == DivEuclid(AsI32(view_min.x), CHUNK_SIZE)
        cy0 == DivEuclid(AsI32(view_min.y), CHUNK_SIZE)
        cx1 == DivEuclid(AsI32(view_max.x), CHUNK_SIZE)
        cy1 == DivEuclid(AsI32(view_max.y), CHUNK_SIZE)
        \* std::mem::swap when min > max
        cx_min == (IF cx0 > cx1 THEN cx1 ELSE cx0) - CULL_MARGIN_CHUNKS
        cx_max == (IF cx0 > cx1 THEN cx0 ELSE cx1) + CULL_MARGIN_CHUNKS
        cy_min == (IF cy0 > cy1 THEN cy1 ELSE cy0) - CULL_MARGIN_CHUNKS
        cy_max == (IF cy0 > cy1 THEN cy0 ELSE cy1) + CULL_MARGIN_CHUNKS
    IN  [chunks |-> SortByKey(CollectChunks(g, order, cx_min, cx_max, cy_min, cy_max))]

\* f32 division by a camera zoom factor (the inputs keep it exact)
FDiv(a, z) == IF z > 0 THEN a \div z ELSE -(a \div (-z))

\* cam: target (f32 point), zoom (integral factors), viewport w/h (as f32)

query_visible(g, order, cam) ==
    LET half_w  == FDiv(cam.viewport.w, cam.zoom.x) \div 2
        half_h  == FDiv(cam.viewport.h, cam.zoom.y) \div 2
        cam_min == Pt(cam.target.x - half_w, cam.target.y - half_h)
        cam_max == Pt(cam.target.x + half_w, cam.target.y + half_h)
        pad     == W(CHUNK_SIZE)
        min     == Pt(cam_min.x - pad, cam_min.y - pad)
        max     == Pt(cam_max.x + pad, cam_max.y + pad)
        cx_min  == DivEuclid(AsI32(min.x), CHUNK_SIZE)
        cy_min  == DivEuclid(AsI32(min.y), CHUNK_SIZE)
        cx_max  == DivEuclid(AsI32(max.x), CHUNK_SIZE)
        cy_max  == DivEuclid(AsI32(max.y), CHUNK_SIZE)
    IN  [chunks |-> SortByKey(CollectChunks(g, order, cx_min, cx_max, cy_min, cy_max))]

visible_chunk_coords_rect(view_min, view_max) ==
    LET cx0 == DivEuclid(AsI32(view_min.x), CHUNK_SIZE)
        cy0 == DivEuclid(AsI32(view_min.y), CHUNK_SIZE)
        cx1 == DivEuclid(AsI32(view_max.x), CHUNK_SIZE)
        cy1 == DivEuclid(AsI32(view_max.y), CHUNK_SIZE)
        cx_min == IF cx0 > cx1 THEN cx1 ELSE cx0
        cx_max == IF cx0 > cx1 THEN cx0 ELSE cx1
        cy_min == IF cy0 > cy1 THEN cy1 ELSE cy0
        cy_max == IF cy0 > cy1 THEN cy0 ELSE cy1
        w == cx_max - cx_min + 1
        h == cy_max - cy_min + 1
    IN  \* for cy in cy_min..=cy_max { for cx in cx_min..=cx_max { push } }
        [i \in 1..(w * h) |->
            [x |-> cx_min + ((i - 1) % w), y |-> cy_min + ((i - 1) \div w)]]

----------------------------------------------------------------------------
(* Tileset resolution: src/src/map.rs *)

\* TileId::clean: self.0 & GID_MASK
clean(id) == id % (GID_MASK + 1)

ts_for_gid_from(gid, lut, tss) ==
    LET c == clean(gid) IN
    IF c >= Len(lut) THEN None
    ELSE IF lut[c + 1] = LUT_NONE THEN None
    ELSE Some([ts |-> lut[c + 1], local |-> c - tss[lut[c + 1] + 1].first_gid])

----------------------------------------------------------------------------
(* Frame stamps: src/src/map.rs *)

\* Vec::resize(n, val)
Resize(s, n, val) == [i \in 1..n |-> IF i <= Len(s) THEN s[i] ELSE val]

\* Vec::fill(val)
Fill(s, val) == [i \in 1..Len(s) |-> val]

\* a buffer of the wrong length is replaced by a zeroed one
ensure_object_layer_stamp_invariant_zeroed(layer) ==
    LET object_count == Len(layer.objects)
        l1 == IF Len(layer.seen_stamp_tiles) # object_count
              THEN [layer EXCEPT !.seen_stamp_tiles = [i \in 1..object_count |-> 0]]
              ELSE layer
    IN  IF Len(l1.seen_stamp_debug) # object_count
        THEN [l1 EXCEPT !.seen_stamp_debug = [i \in 1..object_count |-> 0]]
        ELSE l1

ensure_object_layer_stamp_invariant(layer) ==
    LET object_count == Len(layer.objects)
        l1 == IF Len(layer.seen_stamp_tiles) # object_count
              THEN [layer EXCEPT !.seen_stamp_tiles = Resize(@, object_count, 0)]
              ELSE layer
    IN  IF Len(l1.seen_stamp_debug) # object_count
        THEN [l1 EXCEPT !.seen_stamp_debug = Resize(@, object_count, 0)]
        ELSE l1

\* on overflow only the tile buffers are reset
next_frame_stamp_tiles_only(r, layers) ==
    LET ensured == [i \in 1..Len(layers) |-> ensure_object_layer_stamp_invariant(layers[i])]
    IN  IF r.frame_stamp = StampMax
        THEN [renderer |-> [r EXCEPT !.frame_stamp = 1],
              object_layers |-> [i \in 1..Len(ensured) |->
                    [ensured[i] EXCEPT !.seen_stamp_tiles = Fill(@, 0)]],
              ret |-> 1]
        ELSE [renderer |-> [r EXCEPT !.frame_stamp = r.frame_stamp + 1],
              object_layers |-> ensured,
              ret |-> r.frame_stamp + 1]

\* on overflow the stamp restarts at 1 and the buffers are left as they are
next_frame_stamp_no_reset(r, layers) ==
    LET ensured == [i \in 1..Len(layers) |-> ensure_object_layer_stamp_invariant(layers[i])]
    IN  IF r.frame_stamp = StampMax
        THEN [renderer |-> [r EXCEPT !.frame_stamp = 1], object_layers |-> ensured, ret |-> 1]
        ELSE [renderer |-> [r EXCEPT !.frame_stamp = r.frame_stamp + 1],
              object_layers |-> ensured,
              ret |-> r.frame_stamp + 1]

\* the stamp is advanced with wrapping_add(1) and overflow is not handled
next_frame_stamp_wrapping(r, layers) ==
    LET ensured == [i \in 1..Len(layers) |-> ensure_object_layer_stamp_invariant(layers[i])]
        s       == (r.frame_stamp + 1) % (StampMax + 1)
    IN  [renderer |-> [r EXCEPT !.frame_stamp = s], object_layers |-> ensured, ret |-> s]

\* MapRenderer::next_frame_stamp: the new renderer, the new layers, the returned stamp
next_frame_stamp(r, layers) ==
    LET ensured == [i \in 1..Len(layers) |-> ensure_object_layer_stamp_invariant(layers[i])]
    IN  IF r.frame_stamp = StampMax
        THEN [renderer |-> [r EXCEPT !.frame_stamp = 1],
              object_layers |-> [i \in 1..Len(ensured) |->
                    [ensured[i] EXCEPT !.seen_stamp_tiles = Fill(@, 0),
                                       !.seen_stamp_debug = Fill(@, 0)]],
              ret |-> 1]
        ELSE [renderer |-> [r EXCEPT !.frame_stamp = r.frame_stamp + 1],
              object_layers |-> ensured,
              ret |-> r.frame_stamp + 1]

----------------------------------------------------------------------------
(* Draw passes: src/src/map.rs *)

\* the buckets visited from the last chunk of the list to the first
RECURSIVE for_each_visible_layer_bucket_rev(_, _, _)
for_each_visible_layer_bucket_rev(g, coords, bucket_layer) ==
    IF coords = <<>> THEN <<>>
    ELSE LET cc   == Head(coords)
             rest == for_each_visible_layer_bucket_rev(g, Tail(coords), bucket_layer)
         IN  IF cc \notin DOMAIN g.buckets THEN rest
             ELSE IF bucket_layer \notin DOMAIN g.buckets[cc] THEN rest
             ELSE rest \o <<[cc |-> cc, bucket |-> g.buckets[cc][bucket_layer]]>>

\* The buckets the closure of for_each_visible_layer_bucket is called with, in order
RECURSIVE for_each_visible_layer_bucket(_, _, _)
for_each_visible_layer_bucket(g, coords, bucket_layer) ==
    IF coords = <<>> THEN <<>>
    ELSE LET cc   == Head(coords)
             rest == for_each_visible_layer_bucket(g, Tail(coords), bucket_layer)
         IN  IF cc \notin DOMAIN g.buckets THEN rest
             ELSE IF bucket_layer \notin DOMAIN g.buckets[cc] THEN rest
             ELSE <<[cc |-> cc, bucket |-> g.buckets[cc][bucket_layer]]>> \o rest

\* one entry of the draw log
LogEntry(pass, layer, cc, slot, obj, drawn) ==
    [pass |-> pass, layer |-> layer, cc |-> cc, slot |-> slot, obj |-> obj, drawn |-> drawn]

\* for rec in &bucket.tiles { ts_for_gid(rec.id) else continue; draw }
TileRecords(layer_id, cc, recs, lut, tss) ==
    [i \in 1..Len(recs) |->
        LogEntry("T", layer_id, cc, i - 1, recs[i].handle,
                 ts_for_gid_from(recs[i].id, lut, tss).some)]

RECURSIVE TileBuckets(_, _, _, _)
TileBuckets(layer_id, visits, lut, tss) ==
    IF visits = <<>> THEN <<>>
    ELSE TileRecords(layer_id, Head(visits).cc, Head(visits).bucket.tiles, lut, tss)
         \o TileBuckets(layer_id, Tail(visits), lut, tss)

draw_tile_layer_from_coords(g, tls, coords, tile_layer_idx, lut, tss) ==
    IF tile_layer_idx + 1 \notin DOMAIN tls THEN <<>>
    ELSE IF ~tls[tile_layer_idx + 1].visible THEN <<>>
    ELSE TileBuckets(tls[tile_layer_idx + 1].layer_id,
                     for_each_visible_layer_bucket(g, coords, tls[tile_layer_idx + 1].layer_id),
                     lut, tss)

\* the tile-object pass draws visible Tile objects whose gid resolves
TileObjectDrawn(obj, lut, tss) ==
    /\ obj.visible
    /\ obj.shape.kind = "Tile"
    /\ ts_for_gid_from(obj.shape.gid, lut, tss).some

\* the debug pass draws every visible object but a polygon of fewer than 2 points
DebugObjectDrawn(obj) ==
    /\ obj.visible
    /\ (obj.shape.kind = "Polygon" => Len(obj.shape.points) >= 2)

\* the record loop without the comparison with the stamp
RECURSIVE TilesRecordLoop_NoCheck(_, _, _, _, _, _, _, _)
TilesRecordLoop_NoCheck(layer, cc, recs, i, stamp, acc, lut, tss) ==
    IF i > Len(recs) THEN acc
    ELSE LET object_idx == recs[i].handle IN
         IF object_idx >= Len(layer.objects)
         THEN TilesRecordLoop_NoCheck(layer, cc, recs, i + 1, stamp, acc, lut, tss)
         ELSE TilesRecordLoop_NoCheck(layer, cc, recs, i + 1, stamp,
                [seen |-> [acc.seen EXCEPT ![object_idx + 1] = stamp],
                 log  |-> Append(acc.log,
                            LogEntry("O", layer.id, cc, i - 1, object_idx,
                                     TileObjectDrawn(layer.objects[object_idx + 1], lut, tss)))],
                lut, tss)

\* the record loop without the store of the stamp
RECURSIVE TilesRecordLoop_NoStore(_, _, _, _, _, _, _, _)
TilesRecordLoop_NoStore(layer, cc, recs, i, stamp, acc, lut, tss) ==
    IF i > Len(recs) THEN acc
    ELSE LET object_idx == recs[i].handle IN
         IF object_idx >= Len(layer.objects)
         THEN TilesRecordLoop_NoStore(layer, cc, recs, i + 1, stamp, acc, lut, tss)
         ELSE IF acc.seen[object_idx + 1] = stamp
         THEN TilesRecordLoop_NoStore(layer, cc, recs, i + 1, stamp, acc, lut, tss)
         ELSE TilesRecordLoop_NoStore(layer, cc, recs, i + 1, stamp,
                [seen |-> acc.seen,
                 log  |-> Append(acc.log,
                            LogEntry("O", layer.id, cc, i - 1, object_idx,
                                     TileObjectDrawn(layer.objects[object_idx + 1], lut, tss)))],
                lut, tss)

\* check-and-set of the tile pass over the records of one bucket, from record i on;
\* acc carries the last-seen array and the log
RECURSIVE TilesRecordLoop(_, _, _, _, _, _, _, _)
TilesRecordLoop(layer, cc, recs, i, stamp, acc, lut, tss) ==
    IF i > Len(recs) THEN acc
    ELSE LET object_idx == recs[i].handle IN
         IF object_idx >= Len(layer.objects)
         THEN TilesRecordLoop(layer, cc, recs, i + 1, stamp, acc, lut, tss)
         ELSE IF acc.seen[object_idx + 1] = stamp
         THEN TilesRecordLoop(layer, cc, recs, i + 1, stamp, acc, lut, tss)
         ELSE TilesRecordLoop(layer, cc, recs, i + 1, stamp,
                [seen |-> [acc.seen EXCEPT ![object_idx + 1] = stamp],
                 log  |-> Append(acc.log,
                            LogEntry("O", layer.id, cc, i - 1, object_idx,
                                     TileObjectDrawn(layer.objects[object_idx + 1], lut, tss)))],
                lut, tss)

RECURSIVE TilesBucketLoop(_, _, _, _, _, _)
TilesBucketLoop(layer, visits, stamp, acc, lut, tss) ==
    IF visits = <<>> THEN acc
    ELSE TilesBucketLoop(layer, Tail(visits), stamp,
            TilesRecordLoop(layer, Head(visits).cc, Head(visits).bucket.objects, 1,
                            stamp, acc, lut, tss),
            lut, tss)

\* the layers after the pass and the log of the pass
draw_object_tiles_layer_from_coords(g, layers, coords, layer_idx, stamp, lut, tss) ==
    IF layer_idx + 1 \notin DOMAIN layers THEN [object_layers |-> layers, log |-> <<>>]
    ELSE LET layer == ensure_object_layer_stamp_invariant(layers[layer_idx + 1])
             acc   == TilesBucketLoop(layer,
                         for_each_visible_layer_bucket(g, coords, layer.bucket_layer),
                         stamp, [seen |-> layer.seen_stamp_tiles, log |-> <<>>], lut, tss)
         IN  IF ~layer.visible
             THEN [object_layers |-> [layers EXCEPT ![layer_idx + 1] = layer], log |-> <<>>]
             ELSE [object_layers |-> [layers EXCEPT ![layer_idx + 1] =
                                        [layer EXCEPT !.seen_stamp_tiles = acc.seen]],
                   log |-> acc.log]

RECURSIVE DebugRecordLoop(_, _, _, _, _, _)
DebugRecordLoop(layer, cc, recs, i, stamp, acc) ==
    IF i > Len(recs) THEN acc
    ELSE LET object_idx == recs[i].handle IN
         IF object_idx >= Len(layer.objects)
         THEN DebugRecordLoop(layer, cc, recs, i + 1, stamp, acc)
         ELSE IF acc.seen[object_idx + 1] = stamp
         THEN DebugRecordLoop(layer, cc, recs, i + 1, stamp, acc)
         ELSE DebugRecordLoop(layer, cc, recs, i + 1, stamp,
                [seen |-> [acc.seen EXCEPT ![object_idx + 1] = stamp],
                 log  |-> Append(acc.log,
                            LogEntry("D", layer.id, cc, i - 1, object_idx,
                                     DebugObjectDrawn(layer.objects[object_idx + 1])))])

RECURSIVE DebugBucketLoop(_, _, _, _)
DebugBucketLoop(layer, visits, stamp, acc) ==
    IF visits = <<>> THEN acc
    ELSE DebugBucketLoop(layer, Tail(visits), stamp,
            DebugRecordLoop(layer, Head(visits).cc, Head(visits).bucket.objects, 1, stamp, acc))

\* the debug pass reading and marking the last-seen buffer of the tile pass
draw_object_debug_layer_shared_buffer(g, layers, coords, layer_idx, stamp) ==
    IF layer_idx + 1 \notin DOMAIN layers THEN [object_layers |-> layers, log |-> <<>>]
    ELSE LET layer == ensure_object_layer_stamp_invariant(layers[layer_idx + 1])
             acc   == DebugBucketLoop(layer,
                         for_each_visible_layer_bucket(g, coords, layer.bucket_layer),
                         stamp, [seen |-> layer.seen_stamp_tiles, log |-> <<>>])
         IN  IF ~layer.visible
             THEN [object_layers |-> [layers EXCEPT ![layer_idx + 1] = layer], log |-> <<>>]
             ELSE [object_layers |-> [layers EXCEPT ![layer_idx + 1] =
                                        [layer EXCEPT !.seen_stamp_tiles = acc.seen]],
                   log |-> acc.log]

draw_object_debug_layer_from_coords(g, layers, coords, layer_idx, stamp) ==
    IF layer_idx + 1 \notin DOMAIN layers THEN [object_layers |-> layers, log |-> <<>>]
    ELSE LET layer == ensure_object_layer_stamp_invariant(layers[layer_idx + 1])
             acc   == DebugBucketLoop(layer,
                         for_each_visible_layer_bucket(g, coords, layer.bucket_layer),
                         stamp, [seen |-> layer.seen_stamp_debug, log |-> <<>>])
         IN  IF ~layer.visible
             THEN [object_layers |-> [layers EXCEPT ![layer_idx + 1] = layer], log |-> <<>>]
             ELSE [object_layers |-> [layers EXCEPT ![layer_idx + 1] =
                                        [layer EXCEPT !.seen_stamp_debug = acc.seen]],
                   log |-> acc.log]

\* for layer_idx in 0..self.object_layers.len(), from layer_idx on
RECURSIVE draw_object_layers_tiles_from_coords(_, _, _, _, _, _, _)
draw_object_layers_tiles_from_coords(g, layers, coords, layer_idx, stamp, lut, tss) ==
    IF layer_idx >= Len(layers) THEN [object_layers |-> layers, log |-> <<>>]
    ELSE LET one  == draw_object_tiles_layer_from_coords(g, layers, coords, layer_idx,
                                                         stamp, lut, tss)
             rest == draw_object_layers_tiles_from_coords(g, one.object_layers, coords,
                                                          layer_idx + 1, stamp, lut, tss)
         IN  [object_layers |-> rest.object_layers, log |-> one.log \o rest.log]

RECURSIVE draw_object_layers_debug_from_coords(_, _, _, _, _)
draw_object_layers_debug_from_coords(g, layers, coords, layer_idx, stamp) ==
    IF layer_idx >= Len(layers) THEN [object_layers |-> layers, log |-> <<>>]
    ELSE LET one  == draw_object_debug_layer_from_coords(g, layers, coords, layer_idx, stamp)
             rest == draw_object_layers_debug_from_coords(g, one.object_layers, coords,
                                                          layer_idx + 1, stamp)
         IN  [object_layers |-> rest.object_layers, log |-> one.log \o rest.log]

visible_coords_for_draw(r, view_min, view_max) ==
    LET pad == r.cull_padding IN
    visible_chunk_coords_rect(Pt(view_min.x - pad, view_min.y - pad),
                              Pt(view_max.x + pad, view_max.y + pad))

----------------------------------------------------------------------------
(* Map construction: src/src/map.rs *)

VAdd(a, b) == Pt(a.x + b.x, a.y + b.y)
VSub(a, b) == Pt(a.x - b.x, a.y - b.y)

\* the f32 constant 0.5
HalfUnit == Sub \div 2

RECURSIVE PointsBounds(_, _, _, _)
PointsBounds(origin, points, i, acc) ==
    IF i > Len(points) THEN acc
    ELSE LET wp == VAdd(origin, points[i]) IN
         PointsBounds(origin, points, i + 1,
            [min |-> Pt(Min(acc.min.x, wp.x), Min(acc.min.y, wp.y)),
             max |-> Pt(Max(acc.max.x, wp.x), Max(acc.max.y, wp.y))])

object_aabb_world(obj, layer_offset) ==
    LET origin == VAdd(Pt(obj.x, obj.y), layer_offset)
        around == [min |-> VSub(origin, Pt(HalfUnit, HalfUnit)),
                   max |-> VAdd(origin, Pt(HalfUnit, HalfUnit))]
    IN  CASE obj.shape.kind = "Rectangle" ->
                LET x2 == origin.x + obj.width
                    y2 == origin.y + obj.height
                IN  [min |-> Pt(Min(origin.x, x2), Min(origin.y, y2)),
                     max |-> Pt(Max(origin.x, x2), Max(origin.y, y2))]
          [] obj.shape.kind = "Point" -> around
          [] obj.shape.kind \in {"Polygon", "Polyline"} ->
                IF obj.shape.points = <<>> THEN around
                ELSE PointsBounds(origin, obj.shape.points, 1, [min |-> origin, max |-> origin])
          [] obj.shape.kind = "Tile" ->
                LET w == IF obj.width > 0 THEN obj.width ELSE W(1)
                    h == IF obj.height > 0 THEN obj.height ELSE W(1)
                IN  [min |-> Pt(origin.x, origin.y - h), max |-> Pt(origin.x + w, origin.y)]

object_chunk_span(obj, layer_offset) ==
    LET bb == object_aabb_world(obj, layer_offset)
    IN  [min |-> world_to_chunk(bb.min), max |-> world_to_chunk(bb.max)]

\* every layer numbered by its position in the layer array instead of per kind
build_kinds_by_position(layers, lz, tile_layer_idx, object_layer_idx, acc) ==
    [j \in 0..(Len(layers) - 1) |->
        [kind |-> layers[j + 1].kind,
         idx |-> IF layers[j + 1].kind = "Unsupported" THEN 0 ELSE j]]

RECURSIVE build_kinds(_, _, _, _, _)
build_kinds(layers, lz, tile_layer_idx, object_layer_idx, acc) ==
    IF lz >= Len(layers) THEN acc
    ELSE LET k == layers[lz + 1].kind IN
         CASE k = "Tiles" ->
                build_kinds(layers, lz + 1, tile_layer_idx + 1, object_layer_idx,
                    MapPut(acc, lz, [kind |-> "Tiles", idx |-> tile_layer_idx]))
           [] k = "Objects" ->
                build_kinds(layers, lz + 1, tile_layer_idx, object_layer_idx + 1,
                    MapPut(acc, lz, [kind |-> "Objects", idx |-> object_layer_idx]))
           [] OTHER ->
                build_kinds(layers, lz + 1, tile_layer_idx, object_layer_idx,
                    MapPut(acc, lz, [kind |-> "Unsupported", idx |-> 0]))

build_draw_order_and_kind(layers) ==
    [draw_order |-> [i \in 1..Len(layers) |-> i - 1],
     layer_kind_by_id |-> build_kinds(layers, 0, 0, 0, EmptyMap)]

\* u32 values are kept modulo 2^32 with u32::MAX written as -1, the value that
\* 0u32 - 1 wraps to and that wraps back to 0 when 1 is added
U32_MAX == -1

\* u32::max: the wrapped value -1 is the largest
MaxU32(a, b) == IF a = U32_MAX \/ b = U32_MAX THEN U32_MAX ELSE Max(a, b)

\* max_gid = max_gid.max(first_gid + tilecount - 1) over the tilesets, in wrapping arithmetic
RECURSIVE MaxGid(_, _, _)
MaxGid(tss, i, max_gid) ==
    IF i > Len(tss) THEN max_gid
    ELSE MaxGid(tss, i + 1, MaxU32(max_gid, tss[i].first_gid + tss[i].tilecount - 1))

\* the build profiles: overflow checks on (debug) or off (release)
Builds == {"debug", "release"}

\* whether building the table panics: in a debug build on the subtraction
\* first_gid + tilecount - 1 when the sum is 0; in a release build on a write
\* gid_lut[gid] at or past the length (max_gid + 1) of the table
from_ir_panics(ir, build) ==
    LET tss == ir.tilesets
        len == MaxGid(tss, 1, 0) + 1
    IN  IF build = "debug"
        THEN \E i \in DOMAIN tss : tss[i].first_gid + tss[i].tilecount = 0
        ELSE \E i \in DOMAIN tss :
                \E gid \in tss[i].first_gid..(tss[i].first_gid + tss[i].tilecount - 1) :
                    gid >= len

\* the range written with its end included: first_gid..=(first_gid + tilecount)
RECURSIVE BuildLut_inclusive(_, _, _)
BuildLut_inclusive(tss, i, lut) ==
    IF i > Len(tss) THEN lut
    ELSE BuildLut_inclusive(tss, i + 1,
            [g \in DOMAIN lut |->
                IF g - 1 >= tss[i].first_gid /\ g - 1 <= tss[i].first_gid + tss[i].tilecount
                THEN i - 1 ELSE lut[g]])

\* for gid in first_gid..(first_gid + tilecount) { gid_lut[gid] = i }, tileset by tileset
RECURSIVE BuildLut(_, _, _)
BuildLut(tss, i, lut) ==
    IF i > Len(tss) THEN lut
    ELSE BuildLut(tss, i + 1,
            [g \in DOMAIN lut |->
                IF g - 1 >= tss[i].first_gid /\ g - 1 < tss[i].first_gid + tss[i].tilecount
                THEN i - 1 ELSE lut[g]])

\* the chunks of for cy in min.y..=max.y { for cx in min.x..=max.x }
SpanCoords(cmin, cmax) ==
    IF cmax.x < cmin.x \/ cmax.y < cmin.y THEN <<>>
    ELSE LET w == cmax.x - cmin.x + 1
             h == cmax.y - cmin.y + 1
         IN  [i \in 1..(w * h) |->
                [x |-> cmin.x + ((i - 1) % w), y |-> cmin.y + ((i - 1) \div w)]]

RECURSIVE InsertSpan(_, _, _, _, _, _)
InsertSpan(g, bucket_layer, object_idx, world, span, i) ==
    IF i > Len(span) THEN g
    ELSE InsertSpan(
            insert_object(g, bucket_layer, span[i],
                [handle |-> object_idx, rel_pos |-> VSub(world, chunk_origin(span[i]))]),
            bucket_layer, object_idx, world, span, i + 1)

RECURSIVE InsertObjects(_, _, _, _, _)
InsertObjects(g, bucket_layer, layer_offset, objects, object_idx) ==
    IF object_idx >= Len(objects) THEN g
    ELSE LET obj   == objects[object_idx + 1]
             world == VAdd(Pt(obj.x, obj.y), layer_offset)
             span  == object_chunk_span(obj, layer_offset)
         IN  InsertObjects(
                InsertSpan(g, bucket_layer, object_idx, world,
                           SpanCoords(span.min, span.max), 1),
                bucket_layer, layer_offset, objects, object_idx + 1)

RECURSIVE AddTiles(_, _, _, _, _, _, _, _)
AddTiles(g, lid, layer_offset, width, data, idx, tw, th) ==
    IF idx >= Len(data) THEN g
    ELSE IF data[idx + 1] = 0
         THEN AddTiles(g, lid, layer_offset, width, data, idx + 1, tw, th)
         ELSE LET col   == idx % width
                  row   == idx \div width
                  world == VAdd(Pt(W(col * tw), W(row * th)), layer_offset)
              IN  AddTiles(add_tile(g, data[idx + 1], lid, world),
                           lid, layer_offset, width, data, idx + 1, tw, th)

\* for (lz, layer) in ir.layers.iter().enumerate(), from layer lz on
RECURSIVE LoadLayers(_, _, _)
LoadLayers(ir, lz, st) ==
    IF lz >= Len(ir.layers) THEN st
    ELSE LET layer == ir.layers[lz + 1] IN
         CASE layer.kind = "Objects" ->
                LoadLayers(ir, lz + 1,
                    [st EXCEPT
                       !.object_layers = Append(@,
                            ensure_object_layer_stamp_invariant(
                              [id |-> lz, visible |-> layer.visible, offset |-> layer.offset,
                               objects |-> layer.objects, bucket_layer |-> lz,
                               seen_stamp_tiles |-> [i \in 1..Len(layer.objects) |-> 0],
                               seen_stamp_debug |-> [i \in 1..Len(layer.objects) |-> 0]])),
                       !.index = InsertObjects(@, lz, layer.offset, layer.objects, 0)])
           [] layer.kind = "Tiles" ->
                LoadLayers(ir, lz + 1,
                    [st EXCEPT
                       !.index = AddTiles(@, lz, layer.offset, layer.width, layer.data, 0,
                                          ir.tile_w, ir.tile_h),
                       !.tile_layers = Append(@, [layer_id |-> lz, visible |-> layer.visible])])
           [] OTHER -> LoadLayers(ir, lz + 1, st)

MapRendererDefault ==
    [debug_draw |-> FALSE, cull_padding |-> W(CHUNK_SIZE), frame_stamp |-> 0]

from_ir(ir) ==
    LET max_gid == MaxGid(ir.tilesets, 1, 0)
        dk      == build_draw_order_and_kind(ir.layers)
        st      == LoadLayers(ir, 0, [index |-> GlobalIndexNew, object_layers |-> <<>>,
                                      tile_layers |-> <<>>])
    IN  [index |-> st.index,
         tilesets |-> ir.tilesets,
         object_layers |-> st.object_layers,
         renderer |-> MapRendererDefault,
         gid_lut |-> BuildLut(ir.tilesets, 1, [g \in 1..(max_gid + 1) |-> LUT_NONE]),
         tile_layers |-> st.tile_layers,
         draw_order |-> dk.draw_order,
         layer_kind_by_id |-> dk.layer_kind_by_id]

TileShape(gid) == [kind |-> "Tile", gid |-> gid, points |-> <<>>]
PlainShape(kind) == [kind |-> kind, gid |-> 0, points |-> <<>>]

IrObject(id, x, y, width, height, visible, shape) ==
    [id |-> id, x |-> x, y |-> y, width |-> width, height |-> height,
     visible |-> visible, shape |-> shape]

RECURSIVE InsertAtOrigin(_, _, _)
InsertAtOrigin(g, i, object_count) ==
    IF i >= object_count THEN g
    ELSE InsertAtOrigin(
            insert_object(g, 0, [x |-> 0, y |-> 0], [handle |-> i, rel_pos |-> Pt(0, 0)]),
            i + 1, object_count)

__new_for_stamp_overflow_test(object_count) ==
    [index |-> InsertAtOrigin(GlobalIndexNew, 0, object_count),
     tilesets |-> <<>>,
     object_layers |-> <<ensure_object_layer_stamp_invariant(
        [id |-> 0, visible |-> TRUE, offset |-> Pt(0, 0),
         objects |-> [i \in 1..object_count |->
                        IrObject(i - 1, W(8), W(8), W(16), W(16), TRUE, TileShape(1))],
         bucket_layer |-> 0, seen_stamp_tiles |-> <<>>, seen_stamp_debug |-> <<>>])>>,
     renderer |-> MapRendererDefault,
     gid_lut |-> <<>>,
     tile_layers |-> <<>>,
     draw_order |-> <<0>>,
     layer_kind_by_id |-> MapPut(EmptyMap, 0, [kind |-> "Objects", idx |-> 0])]

----------------------------------------------------------------------------
(* Map draw API: src/src/map.rs.  `self` is the Map as a record. *)

\* for i in 0..self.draw_order.len(), from position i on; acc: object layers and log
RECURSIVE DrawLoop(_, _, _, _, _)
DrawLoop(self, coords, stamp, i, acc) ==
    IF i >= Len(self.draw_order) THEN acc
    ELSE LET layer_id == self.draw_order[i + 1] IN
         IF layer_id \notin DOMAIN self.layer_kind_by_id
         THEN DrawLoop(self, coords, stamp, i + 1, acc)
         ELSE LET kind == self.layer_kind_by_id[layer_id] IN
              CASE kind.kind = "Tiles" ->
                     DrawLoop(self, coords, stamp, i + 1,
                        [acc EXCEPT !.log = @ \o
                            draw_tile_layer_from_coords(self.index, self.tile_layers, coords,
                                kind.idx, self.gid_lut, self.tilesets)])
                [] kind.kind = "Objects" ->
                     LET t == draw_object_tiles_layer_from_coords(self.index,
                                 acc.object_layers, coords, kind.idx, stamp,
                                 self.gid_lut, self.tilesets)
                         d == IF self.renderer.debug_draw
                              THEN draw_object_debug_layer_from_coords(self.index,
                                      t.object_layers, coords, kind.idx, stamp)
                              ELSE [object_layers |-> t.object_layers, log |-> <<>>]
                     IN  DrawLoop(self, coords, stamp, i + 1,
                            [object_layers |-> d.object_layers,
                             log |-> acc.log \o t.log \o d.log])
                [] OTHER -> DrawLoop(self, coords, stamp, i + 1, acc)

\* the result of a call: the Map afterwards, the stamp used, the chunk list, the draw log
Result(self, stamp, coords, log) ==
    [self |-> self, stamp |-> stamp, coords |-> coords, log |-> log]

draw(self, view_min, view_max) ==
    LET coords == visible_coords_for_draw(self.renderer, view_min, view_max)
        nfs    == next_frame_stamp(self.renderer, self.object_layers)
        acc    == DrawLoop([self EXCEPT !.renderer = nfs.renderer], coords, nfs.ret, 0,
                           [object_layers |-> nfs.object_layers, log |-> <<>>])
    IN  Result([self EXCEPT !.renderer = nfs.renderer,
                            !.object_layers = acc.object_layers],
               nfs.ret, coords, acc.log)

draw_objects_tiles_with_stamp(self, view_min, view_max, stamp) ==
    LET coords == visible_coords_for_draw(self.renderer, view_min, view_max)
        p      == draw_object_layers_tiles_from_coords(self.index, self.object_layers,
                      coords, 0, stamp, self.gid_lut, self.tilesets)
    IN  Result([self EXCEPT !.object_layers = p.object_layers], stamp, coords, p.log)

draw_objects_debug_with_stamp(self, view_min, view_max, stamp) ==
    LET coords == visible_coords_for_draw(self.renderer, view_min, view_max)
        p      == draw_object_layers_debug_from_coords(self.index, self.object_layers,
                      coords, 0, stamp)
    IN  Result([self EXCEPT !.object_layers = p.object_layers], stamp, coords, p.log)

draw_objects_tiles(self, view_min, view_max) ==
    LET nfs == next_frame_stamp(self.renderer, self.object_layers)
    IN  draw_objects_tiles_with_stamp(
            [self EXCEPT !.renderer = nfs.renderer, !.object_layers = nfs.object_layers],
            view_min, view_max, nfs.ret)

\* the debug pass run with the current stamp, without acquiring a new one
draw_objects_debug_same_stamp(self, view_min, view_max) ==
    draw_objects_debug_with_stamp(self, view_min, view_max, self.renderer.frame_stamp)

draw_objects_debug(self, view_min, view_max) ==
    LET nfs == next_frame_stamp(self.renderer, self.object_layers)
    IN  draw_objects_debug_with_stamp(
            [self EXCEPT !.renderer = nfs.renderer, !.object_layers = nfs.object_layers],
            view_min, view_max, nfs.ret)

\* for chunk in &view.chunks { if let Some(bucket) = layers.get(&layer_id) { .. } }
RECURSIVE TileViewChunks(_, _, _, _, _)
TileViewChunks(layer_id, chunks, i, lut, tss) ==
    IF i > Len(chunks) THEN <<>>
    ELSE (IF layer_id \in DOMAIN chunks[i].layers
          THEN TileRecords(layer_id, chunks[i].coord, chunks[i].layers[layer_id].tiles, lut, tss)
          ELSE <<>>)
         \o TileViewChunks(layer_id, chunks, i + 1, lut, tss)

draw_tile_layer_from_view(self, v, tile_layer_idx) ==
    IF tile_layer_idx + 1 \notin DOMAIN self.tile_layers THEN <<>>
    ELSE IF ~self.tile_layers[tile_layer_idx + 1].visible THEN <<>>
    ELSE TileViewChunks(self.tile_layers[tile_layer_idx + 1].layer_id, v.chunks, 1,
                        self.gid_lut, self.tilesets)

RECURSIVE draw_chunks(_, _, _)
draw_chunks(self, v, tile_layer_idx) ==
    IF tile_layer_idx >= Len(self.tile_layers) THEN <<>>
    ELSE draw_tile_layer_from_view(self, v, tile_layer_idx)
         \o draw_chunks(self, v, tile_layer_idx + 1)

\* `order` is the iteration order of the index's hash map
draw_visible_rect(self, order, view_min, view_max) ==
    draw_chunks(self, query_visible_rect(self.index, order, view_min, view_max), 0)

----------------------------------------------------------------------------
(* Inputs *)

\* tile positions of add_tile: chunks (1,0), (0,1), (-1,0)
TilePositions ==
    {Pt(W(260), W(0)), Pt(W(0), W(260)), Pt(W(-5), W(10))}

\* chunks of insert_object
ObjectChunks == {[x |-> 1, y |-> 0], [x |-> 0, y |-> 1]}

\* view rectangles (view_min, view_max)
IndexViews ==
    {<<Pt(W(0), W(0)), Pt(W(40), W(20))>>,
     <<Pt(W(0), W(0)), Pt(W(800), W(800))>>,
     <<Pt(W(800), W(300)), Pt(W(300), W(10))>>,
     <<Pt(W(2000), W(2000)), Pt(W(2100), W(2100))>>,
     <<Pt(W(520), W(10)), Pt(W(600), W(20))>>,
     <<Pt(W(-300) - 1, W(-1) + 1), Pt(W(-1) + 1, W(255) + 1)>>}

Cameras ==
    {[target |-> Pt(W(287) + 1, W(128)), zoom |-> Pt(1, 1), viewport |-> [w |-> W(64), h |-> W(64)]],
     [target |-> Pt(W(600), W(300)), zoom |-> Pt(2, 2), viewport |-> [w |-> W(512), h |-> W(256)]],
     [target |-> Pt(W(0), W(0)), zoom |-> Pt(1, -1), viewport |-> [w |-> W(640), h |-> W(480)]]}

DefaultCam == [target |-> Pt(0, 0), zoom |-> Pt(1, 1), viewport |-> [w |-> 0, h |-> 0]]

\* the lengths of the stamp buffers of every object layer
BufferLens(layers) ==
    [li \in DOMAIN layers |-> [tiles |-> Len(layers[li].seen_stamp_tiles),
                               debug |-> Len(layers[li].seen_stamp_debug)]]

\* a call as recorded in `last`: before and lens are the frame stamp and the buffer
\* lengths when the call was made
Call(op, view_min, view_max, cam, stamp, coords, log) ==
    [op |-> op, before |-> renderer.frame_stamp, lens |-> BufferLens(object_layers),
     view_min |-> view_min, view_max |-> view_max, cam |-> cam, stamp |-> stamp,
     coords |-> coords, log |-> log, gid |-> 0, ret |-> None]

NoCall ==
    [op |-> "new", before |-> 0, lens |-> <<>>, view_min |-> Pt(0, 0),
     view_max |-> Pt(0, 0), cam |-> DefaultCam, stamp |-> 0, coords |-> <<>>, log |-> <<>>,
     gid |-> 0, ret |-> None]

NoView == [chunks |-> <<>>]

\* the number of object records in all buckets of the index
RECURSIVE SumLens(_, _)
SumLens(f, S) ==
    IF S = {} THEN 0
    ELSE LET k == CHOOSE k \in S : TRUE IN Len(f[k].objects) + SumLens(f, S \ {k})

RECURSIVE ObjectRecordCount(_, _)
ObjectRecordCount(g, S) ==
    IF S = {} THEN 0
    ELSE LET cc == CHOOSE cc \in S : TRUE
         IN  SumLens(g.buckets[cc], DOMAIN g.buckets[cc]) + ObjectRecordCount(g, S \ {cc})

----------------------------------------------------------------------------
(* The index on its own: GlobalIndex::new, then add_tile / insert_object and queries *)

InitIndex ==
    /\ index = GlobalIndexNew
    /\ view = NoView
    /\ tilesets = <<>>
    /\ gid_lut = <<>>
    /\ object_layers = <<>>
    /\ tile_layers = <<>>
    /\ draw_order = <<>>
    /\ layer_kind_by_id = EmptyMap
    /\ renderer = MapRendererDefault
    /\ last = NoCall
    /\ stamp_rule = TRUE

AddTile(id, layer, world) ==
    /\ index.next_handle < MaxTiles
    /\ index' = add_tile(index, id, layer, world)
    /\ last' = Call("add_tile", world, world, DefaultCam, index.next_handle, <<>>, <<>>)
    /\ UNCHANGED <<view, mapVars>>

InsertObject(layer, chunk, object_rec) ==
    /\ ObjectRecordCount(index, DOMAIN index.buckets) < MaxRecs
    /\ index' = insert_object(index, layer, chunk, object_rec)
    /\ last' = Call("insert_object", Pt(0, 0), Pt(0, 0), DefaultCam, layer, <<chunk>>, <<>>)
    /\ UNCHANGED <<view, mapVars>>

QueryVisibleRect(view_min, view_max) ==
    /\ \E order \in Perms(DOMAIN index.buckets) :
          view' = query_visible_rect(index, order, view_min, view_max)
    /\ last' = Call("query_visible_rect", view_min, view_max, DefaultCam, 0, <<>>, <<>>)
    /\ UNCHANGED <<index, mapVars>>

QueryVisible(cam) ==
    /\ \E order \in Perms(DOMAIN index.buckets) :
          view' = query_visible(index, order, cam)
    /\ last' = Call("query_visible", Pt(0, 0), Pt(0, 0), cam, 0, <<>>, <<>>)
    /\ UNCHANGED <<index, mapVars>>

VisibleChunkCoordsRect(view_min, view_max) ==
    /\ last' = Call("visible_chunk_coords_rect", view_min, view_max, DefaultCam, 0,
                    visible_chunk_coords_rect(view_min, view_max), <<>>)
    /\ UNCHANGED <<index, view, mapVars>>

NextIndex ==
    \/ \E id \in {1} : \E layer \in {0} : \E world \in TilePositions :
          AddTile(id, layer, world)
    \/ \E layer \in {1} : \E chunk \in ObjectChunks : \E h \in {0} :
          InsertObject(layer, chunk, [handle |-> h, rel_pos |-> Pt(0, W(32))])
    \/ \E v \in IndexViews : QueryVisibleRect(v[1], v[2])
    \/ \E cam \in Cameras : QueryVisible(cam)
    \/ \E v \in IndexViews : VisibleChunkCoordsRect(v[1], v[2])

SpecIndex == InitIndex /\ [][NextIndex]_vars

----------------------------------------------------------------------------
(* The loaded Map: Map::from_ir or the test constructor, then the draw API *)

Coin    == IrObject(77, W(248), W(32), W(16), W(16), TRUE, TileShape(1))
WideBox == IrObject(5, W(250) + 1, W(10), W(20), W(20), TRUE, PlainShape("Rectangle"))
Mark    == IrObject(6, W(300), W(300), 0, 0, TRUE, PlainShape("Point"))
Hidden  == IrObject(8, W(8), W(40), W(16), W(16), FALSE, TileShape(1))

TilesLayer(visible, data) ==
    [kind |-> "Tiles", visible |-> visible, offset |-> Pt(0, 0), objects |-> <<>>,
     width |-> 3, height |-> 1, data |-> data]

ObjectsLayer(visible, objects) ==
    [kind |-> "Objects", visible |-> visible, offset |-> Pt(0, 0), objects |-> objects,
     width |-> 0, height |-> 0, data |-> <<>>]

UnsupportedLayer ==
    [kind |-> "Unsupported", visible |-> TRUE, offset |-> Pt(0, 0), objects |-> <<>>,
     width |-> 0, height |-> 0, data |-> <<>>]

IrMapOf(layers) ==
    [tile_w |-> 128, tile_h |-> 128,
     tilesets |-> <<[first_gid |-> 1, tilecount |-> 4]>>,
     layers |-> layers]

\* the decoded maps that are loaded
IrMaps ==
    {IrMapOf(<<TilesLayer(TRUE, <<1, 5, 1>>), ObjectsLayer(TRUE, <<Coin, WideBox>>),
               UnsupportedLayer>>),
     IrMapOf(<<ObjectsLayer(FALSE, <<Coin>>), TilesLayer(TRUE, <<0, 0, 1>>),
               ObjectsLayer(TRUE, <<Hidden, Coin>>)>>),
     IrMapOf(<<ObjectsLayer(TRUE, <<Mark, WideBox>>), TilesLayer(FALSE, <<1, 1, 0>>)>>)}

\* object counts of the maps built by the test constructor
TestObjectCounts == {0, 3}

\* Map::from_ir, or the test constructor followed by __set_frame_stamp_for_testing
LoadedMaps ==
    {from_ir(ir) : ir \in IrMaps}
    \cup {[__new_for_stamp_overflow_test(n) EXCEPT !.renderer.frame_stamp = s0]
            : n \in TestObjectCounts, s0 \in {0, StampMax - 1}}

\* the Map of the current state
Self ==
    [index |-> index, tilesets |-> tilesets, object_layers |-> object_layers,
     renderer |-> renderer, gid_lut |-> gid_lut, tile_layers |-> tile_layers,
     draw_order |-> draw_order, layer_kind_by_id |-> layer_kind_by_id]

Init ==
    \E m \in LoadedMaps :
        /\ index = m.index
        /\ view = NoView
        /\ tilesets = m.tilesets
        /\ gid_lut = m.gid_lut
        /\ object_layers = m.object_layers
        /\ tile_layers = m.tile_layers
        /\ draw_order = m.draw_order
        /\ layer_kind_by_id = m.layer_kind_by_id
        /\ renderer = m.renderer
        /\ last = NoCall
        /\ stamp_rule = TRUE

\* a call that changes only the stamp buffers and the renderer
Apply(op, view_min, view_max, r) ==
    /\ object_layers' = r.self.object_layers
    /\ renderer' = r.self.renderer
    /\ last' = Call(op, view_min, view_max, DefaultCam, r.stamp, r.coords, r.log)
    /\ UNCHANGED <<index, view, tilesets, gid_lut, tile_layers, draw_order, layer_kind_by_id>>

Draw(view_min, view_max) ==
    /\ Apply("draw", view_min, view_max, draw(Self, view_min, view_max))
    /\ UNCHANGED stamp_rule

DrawObjectsTiles(view_min, view_max) ==
    /\ Apply("draw_objects_tiles", view_min, view_max,
             draw_objects_tiles(Self, view_min, view_max))
    /\ UNCHANGED stamp_rule

DrawObjectsDebug(view_min, view_max) ==
    /\ Apply("draw_objects_debug", view_min, view_max,
             draw_objects_debug(Self, view_min, view_max))
    /\ UNCHANGED stamp_rule

DrawObjectsTilesWithStamp(view_min, view_max, stamp) ==
    /\ Apply("draw_objects_tiles_with_stamp", view_min, view_max,
             draw_objects_tiles_with_stamp(Self, view_min, view_max, stamp))
    /\ stamp_rule' = (stamp_rule /\ stamp = renderer.frame_stamp)

DrawObjectsDebugWithStamp(view_min, view_max, stamp) ==
    /\ Apply("draw_objects_debug_with_stamp", view_min, view_max,
             draw_objects_debug_with_stamp(Self, view_min, view_max, stamp))
    /\ stamp_rule' = (stamp_rule /\ stamp = renderer.frame_stamp)

NextFrameStamp ==
    LET nfs == next_frame_stamp(renderer, object_layers) IN
    /\ object_layers' = nfs.object_layers
    /\ renderer' = nfs.renderer
    /\ last' = Call("next_frame_stamp", Pt(0, 0), Pt(0, 0), DefaultCam, nfs.ret, <<>>, <<>>)
    /\ UNCHANGED <<index, view, tilesets, gid_lut, tile_layers, draw_order,
                   layer_kind_by_id, stamp_rule>>

SetDebugDraw(enabled) ==
    /\ renderer' = [renderer EXCEPT !.debug_draw = enabled]
    /\ last' = Call("set_debug_draw", Pt(0, 0), Pt(0, 0), DefaultCam, 0, <<>>, <<>>)
    /\ UNCHANGED <<index, view, tilesets, gid_lut, object_layers, tile_layers, draw_order,
                   layer_kind_by_id, stamp_rule>>

SetCullPadding(padding) ==
    /\ renderer' = [renderer EXCEPT !.cull_padding = Max(padding, 0)]
    /\ last' = Call("set_cull_padding", Pt(0, 0), Pt(0, 0), DefaultCam, 0, <<>>, <<>>)
    /\ UNCHANGED <<index, view, tilesets, gid_lut, object_layers, tile_layers, draw_order,
                   layer_kind_by_id, stamp_rule>>

DrawVisibleRect(view_min, view_max) ==
    /\ \E order \in Perms(DOMAIN index.buckets) :
          last' = Call("draw_visible_rect", view_min, view_max, DefaultCam, 0, <<>>,
                       draw_visible_rect(Self, order, view_min, view_max))
    /\ UNCHANGED <<index, view, mapVars>>

\* view rectangles (view_min, view_max) of the draw calls
MapViews ==
    {<<Pt(W(0), W(0)), Pt(W(64), W(64))>>,
     <<Pt(W(260), W(10)), Pt(W(300), W(60))>>,
     <<Pt(W(600), W(40)), Pt(W(0), W(0))>>}

Paddings == {W(-5), 0, W(CHUNK_SIZE)}

\* stamps passed to the _with_stamp methods: the current one and one not yet issued
Stamps == {renderer.frame_stamp, (renderer.frame_stamp + 1) % (StampMax + 1)}

Next ==
    \/ \E v \in MapViews : Draw(v[1], v[2])
    \/ \E v \in MapViews : DrawObjectsTiles(v[1], v[2])
    \/ \E v \in MapViews : DrawObjectsDebug(v[1], v[2])
    \/ \E v \in MapViews : \E stamp \in Stamps : DrawObjectsTilesWithStamp(v[1], v[2], stamp)
    \/ \E v \in MapViews : \E stamp \in Stamps : DrawObjectsDebugWithStamp(v[1], v[2], stamp)
    \/ NextFrameStamp
    \/ \E enabled \in BOOLEAN : SetDebugDraw(enabled)
    \/ \E padding \in Paddings : SetCullPadding(padding)
    \/ \E v \in MapViews : DrawVisibleRect(v[1], v[2])

Spec == Init /\ [][Next]_vars

----------------------------------------------------------------------------
(* Loading: Map::from_ir on decoded maps, then tileset resolution (SpecLoad) *)

Tileset(first_gid, tilecount) == [first_gid |-> first_gid, tilecount |-> tilecount]

\* tileset lists as the decoder delivers them, sorted by first_gid: none, one, adjacent,
\* overlapping, with gaps, starting at 0, with an empty tileset, one inside another,
\* and with an empty tileset at 0
LoadTilesets ==
    {<<>>,
     <<Tileset(1, 4)>>,
     <<Tileset(1, 4), Tileset(5, 2)>>,
     <<Tileset(1, 4), Tileset(3, 4)>>,
     <<Tileset(2, 3), Tileset(7, 1)>>,
     <<Tileset(0, 2)>>,
     <<Tileset(1, 0), Tileset(1, 2)>>,
     <<Tileset(1, 6), Tileset(2, 2)>>,
     <<Tileset(0, 0)>>,
     <<Tileset(0, 0), Tileset(0, 2), Tileset(1, 2)>>}

OffsetObjectsLayer(offset, objects) ==
    [kind |-> "Objects", visible |-> TRUE, offset |-> offset, objects |-> objects,
     width |-> 0, height |-> 0, data |-> <<>>]

PointAtZero == IrObject(9, 0, W(5), 0, 0, TRUE, PlainShape("Point"))
NegBox      == IrObject(10, W(-300), W(-10), W(100), W(30), TRUE, PlainShape("Rectangle"))
Triangle    ==
    IrObject(11, W(200), W(200), 0, 0, TRUE,
             [kind |-> "Polygon", gid |-> 0,
              points |-> <<Pt(0, 0), Pt(W(100), W(20)), Pt(W(-10), W(70))>>])
ThinTile    == IrObject(12, W(255), W(256), 0, 0, TRUE, TileShape(2))

\* layer lists of the decoded maps
LoadLayerLists ==
    {<<>>,
     <<ObjectsLayer(TRUE, <<WideBox, Mark>>)>>,
     <<TilesLayer(TRUE, <<1, 0, 4>>), ObjectsLayer(TRUE, <<Coin, NegBox>>)>>,
     <<OffsetObjectsLayer(Pt(W(-20), W(300) + 1), <<Coin, Triangle, ThinTile>>),
       UnsupportedLayer, ObjectsLayer(FALSE, <<WideBox>>)>>,
     <<ObjectsLayer(TRUE, <<PointAtZero>>)>>,
     <<UnsupportedLayer, TilesLayer(TRUE, <<2, 0, 0>>), ObjectsLayer(FALSE, <<Mark>>),
       TilesLayer(FALSE, <<0, 3, 0>>)>>}

IrMapWith(tss, layers) ==
    [tile_w |-> 128, tile_h |-> 128, tilesets |-> tss, layers |-> layers]

\* the decoded maps passed to Map::from_ir
LoadIrMaps ==
    {IrMapWith(tss, <<ObjectsLayer(TRUE, <<WideBox>>)>>) : tss \in LoadTilesets}
    \cup {IrMapWith(<<Tileset(1, 4)>>, layers) : layers \in LoadLayerLists}

\* raw tile identifiers: plain, and with flip flags on top of an index
RawGids == (0..8) \cup {GID_MASK, GID_MASK + 2, 2 * (GID_MASK + 1), 3 * (GID_MASK + 1) + 4}

InitLoad == InitIndex

\* the load panicked: no Map exists
LoadPanic(ir, build) ==
    /\ last.op = "new"
    /\ from_ir_panics(ir, build)
    /\ last' = Call("from_ir_panic", Pt(0, 0), Pt(0, 0), DefaultCam, 0, <<>>, <<>>)
    /\ UNCHANGED <<index, view, mapVars>>

Load(ir, build) ==
    /\ last.op = "new"
    /\ ~from_ir_panics(ir, build)
    /\ LET m == from_ir(ir) IN
          /\ index' = m.index
          /\ tilesets' = m.tilesets
          /\ gid_lut' = m.gid_lut
          /\ object_layers' = m.object_layers
          /\ tile_layers' = m.tile_layers
          /\ draw_order' = m.draw_order
          /\ layer_kind_by_id' = m.layer_kind_by_id
          /\ renderer' = m.renderer
    /\ last' = Call("from_ir", Pt(0, 0), Pt(0, 0), DefaultCam, 0, <<>>,
                     [i \in DOMAIN ir.layers |-> ir.layers[i].kind])
    /\ UNCHANGED <<view, stamp_rule>>

TsForGid(gid) ==
    /\ last.op \in {"from_ir", "ts_for_gid"}
    /\ last' = [Call("ts_for_gid", Pt(0, 0), Pt(0, 0), DefaultCam, 0, <<>>, <<>>)
                  EXCEPT !.gid = gid, !.ret = ts_for_gid_from(gid, gid_lut, tilesets)]
    /\ UNCHANGED <<index, view, mapVars>>

NextLoad ==
    \/ \E ir \in LoadIrMaps, build \in Builds : Load(ir, build)
    \/ \E ir \in LoadIrMaps, build \in Builds : LoadPanic(ir, build)
    \/ \E gid \in RawGids : TsForGid(gid)

SpecLoad == InitLoad /\ [][NextLoad]_vars

----------------------------------------------------------------------------
(* Tile identifier codec: TileId and Map::params_for_flips_gid (SpecCodec) *)

\* a u32 word is kept as the 32-bit two's-complement integer with the same bits,
\* so words with bit 31 set are the negative integers
FLIP_H == -1073741824 - 1073741824
FLIP_V == 1073741824
FLIP_D == 536870912

\* (word & (1 << n)) != 0
BitSet(word, n) == IF n = 31 THEN word < 0 ELSE (word \div (2 ^ n)) % 2 = 1

\* the vertical flag read from bit 29
flip_v_bit29(id) == BitSet(id, 29)

flip_h(id) == BitSet(id, 31)
flip_v(id) == BitSet(id, 30)
flip_d(id) == BitSet(id, 29)

\* flip_x taken from the horizontal flag alone
params_for_flips_gid_no_xor(gid) ==
    [rotation |-> IF ~flip_h(gid) THEN 0
                  ELSE IF flip_v(gid) /\ flip_d(gid) THEN 180 ELSE 90,
     flip_x |-> flip_h(gid),
     flip_y |-> flip_v(gid)]

\* all three flags treated like the other horizontal cases
params_for_flips_gid_all_quarter(gid) ==
    [rotation |-> IF flip_h(gid) THEN 90 ELSE 0,
     flip_x |-> flip_h(gid) # flip_d(gid),
     flip_y |-> flip_v(gid)]

\* rotation in degrees: FRAC_PI_2 is 90, PI is 180
params_for_flips_gid(gid) ==
    LET h == flip_h(gid)
        v == flip_v(gid)
        d == flip_d(gid)
    IN  [rotation |-> IF ~h THEN 0
                      ELSE IF ~v /\ ~d THEN 90
                      ELSE IF ~v /\ d THEN 90
                      ELSE IF v /\ ~d THEN 90
                      ELSE 180,
         flip_x |-> (h /\ ~d) \/ (~h /\ d),
         flip_y |-> v]

\* TileId(i | flags): the word with index bits i and the chosen flag bits
TileIdOf(i, h, v, d) ==
    (i + (IF v THEN FLIP_V ELSE 0) + (IF d THEN FLIP_D ELSE 0)) + (IF h THEN FLIP_H ELSE 0)

\* the accessors of TileId and the draw parameters applied to one identifier
Decode(i, h, v, d) ==
    /\ last' = [Call("decode", Pt(0, 0), Pt(0, 0), DefaultCam, i, <<h, v, d>>, <<>>)
                  EXCEPT !.gid = TileIdOf(i, h, v, d),
                         !.ret = Some([clean |-> clean(TileIdOf(i, h, v, d)),
                                       flip_h |-> flip_h(TileIdOf(i, h, v, d)),
                                       flip_v |-> flip_v(TileIdOf(i, h, v, d)),
                                       flip_d |-> flip_d(TileIdOf(i, h, v, d)),
                                       params |-> params_for_flips_gid(TileIdOf(i, h, v, d))])]
    /\ UNCHANGED <<index, view, mapVars>>

NextCodec ==
    \E i \in {0, 1, 2, 3, 5, 8, 255, 256, 65535, 2 ^ 28 - 1, 2 ^ 28, 2 ^ 28 + 1,
              GID_MASK - 1, GID_MASK} :
        \E h \in BOOLEAN, v \in BOOLEAN, d \in BOOLEAN : Decode(i, h, v, d)

SpecCodec == InitIndex /\ [][NextCodec]_vars

----------------------------------------------------------------------------
(* Decoding: Map::load_from_str of src/src/lib.rs and the gid validation of
   src/src/loader/json_loader.rs (SpecDecode) *)

\* x + y on u32 words (two's-complement integers): the wrapped sum and the carry out of bit 31
AddU32(x, y) ==
    LET val == IF x >= 0 /\ y >= 0 /\ x > 2147483647 - y
               THEN (x - 1073741824 - 1073741824) + (y - 1073741824 - 1073741824)
               ELSE IF x < 0 /\ y < 0 /\ x < (-1073741824 - 1073741824) - y
               THEN (x + 1073741824 + 1073741824) + (y + 1073741824 + 1073741824)
               ELSE x + y
    IN  [val |-> val,
         carry |-> (x < 0 /\ y < 0) \/ ((x < 0) # (y < 0) /\ val >= 0)]

\* a * b on u32 words by doubling, for 0 <= b: the wrapped product and whether the
\* product left the 32 bits
RECURSIVE MulU32(_, _)
MulU32(a, b) ==
    IF b = 0 THEN [val |-> 0, carry |-> FALSE]
    ELSE LET half == MulU32(a, b \div 2)
             dbl  == AddU32(half.val, half.val)
             odd  == AddU32(dbl.val, a)
         IN  IF b % 2 = 1
             THEN [val |-> odd.val, carry |-> half.carry \/ dbl.carry \/ odd.carry]
             ELSE [val |-> dbl.val, carry |-> half.carry \/ dbl.carry]

\* the first layer whose data length differs from the size
RECURSIVE FirstBadLayer(_, _, _)
FirstBadLayer(layers, i, size) ==
    IF i > Len(layers) THEN 0
    ELSE IF Len(layers[i].data) # size THEN i
    ELSE FirstBadLayer(layers, i + 1, size)

\* Map::load_from_str on a parsed RawMap; `raw.width * raw.height` panics on overflow in a
\* debug build and wraps in a release build
load_from_str(raw, build) ==
    LET size == MulU32(raw.width, raw.height) IN
    IF raw.width = 0 \/ raw.height = 0
    THEN [kind |-> "Err", error |-> "InvalidLayerSize", name |-> "<map>"]
    ELSE IF raw.layers = <<>> THEN [kind |-> "Err", error |-> "NoLayer", name |-> ""]
    ELSE IF size.carry /\ build = "debug" THEN [kind |-> "Panic"]
    ELSE IF FirstBadLayer(raw.layers, 1, size.val) # 0
    THEN [kind |-> "Err", error |-> "InvalidLayerSize",
          name |-> raw.layers[FirstBadLayer(raw.layers, 1, size.val)].name]
    ELSE [kind |-> "Ok", width |-> raw.width, height |-> raw.height, layers |-> raw.layers]

\* parsed maps: dimensions 0, small and 65536; layer lists with right and wrong data lengths
RawMaps ==
    LET RawLayer(name, data) == [name |-> name, data |-> data] IN
    {[width |-> w, height |-> h, layers |-> ls] :
        w \in {0, 1, 2, 3, 65536}, h \in {0, 1, 2, 65536},
        ls \in {<<>>,
                <<RawLayer("only", <<>>)>>,
                <<RawLayer("bg", <<1, 1>>)>>,
                <<RawLayer("bg", <<1, 0, 0, 1>>), RawLayer("oops", <<1, 2, 3>>)>>,
                <<RawLayer("bg", <<1, 1>>), RawLayer("fg", <<0, 2>>)>>,
                <<RawLayer("short", <<7>>), RawLayer("long", <<1, 2, 3, 4, 5, 6>>),
                  RawLayer("fit", <<1, 2, 3>>)>>}}

\* ir_tilesets.sort_by_key(first_gid): a stable sort
RECURSIVE SortTilesets(_)
SortTilesets(tss) ==
    IF Len(tss) <= 1 THEN tss
    ELSE LET rest == SortTilesets(Tail(tss))
             before == {k \in DOMAIN rest : rest[k].first_gid < Head(tss).first_gid}
         IN  SubSeq(rest, 1, Cardinality(before)) \o <<Head(tss)>>
             \o SubSeq(rest, Cardinality(before) + 1, Len(rest))

\* decode_map_file_to_ir on a parsed JsonMap whose tileset files were read: the tilesets
\* are sorted, max_gid is computed in u32 (a panic in a debug build when first_gid +
\* tilecount is 0, u32::MAX in a release build), and the layers are converted in order;
\* the first identifier that fails its test ends the decoding with its error
decode_map_file_to_ir(j, build) ==
    LET tss == SortTilesets(j.tilesets)
        max_gid == MaxGid(tss, 1, 0)
        Exceeds(gid) == max_gid # U32_MAX /\ gid > max_gid
        BadTiles(l) == {k \in DOMAIN l.data : clean(l.data[k]) # 0 /\ Exceeds(clean(l.data[k]))}
        BadObjects(l) ==
            {k \in DOMAIN l.objects :
                /\ l.objects[k].gid.some
                /\ \/ clean(l.objects[k].gid.val) = 0
                   \/ Exceeds(clean(l.objects[k].gid.val))}
        Failing == {i \in DOMAIN j.layers :
                        \/ j.layers[i].kind = "tilelayer" /\ BadTiles(j.layers[i]) # {}
                        \/ j.layers[i].kind = "objectgroup" /\ BadObjects(j.layers[i]) # {}}
        Least(S) == CHOOSE m \in S : \A n \in S : m <= n
    IN  IF build = "debug" /\ \E i \in DOMAIN tss : tss[i].first_gid + tss[i].tilecount = 0
        THEN [kind |-> "Panic"]
        ELSE IF Failing = {}
        THEN [kind |-> "Ok", tilesets |-> tss, layers |-> j.layers]
        ELSE LET l == j.layers[Least(Failing)] IN
             IF l.kind = "tilelayer"
             THEN [kind |-> "Err", error |-> "InvalidTileGid", layer |-> l.name,
                   gid |-> clean(l.data[Least(BadTiles(l))]), max_gid |-> max_gid]
             ELSE [kind |-> "Err", error |-> "InvalidObjectGid", layer |-> l.name,
                   object_id |-> l.objects[Least(BadObjects(l))].id,
                   gid |-> clean(l.objects[Least(BadObjects(l))].gid.val),
                   max_gid |-> max_gid]

\* parsed maps: tileset lists (none, one, two out of order, an empty tileset at 0) and
\* layer lists with identifiers 0, in range, flagged, and out of range
JsonMaps ==
    LET TileL(name, data) == [kind |-> "tilelayer", name |-> name, data |-> data,
                              objects |-> <<>>]
        ObjL(name, objects) == [kind |-> "objectgroup", name |-> name, data |-> <<>>,
                                objects |-> objects]
        Obj(id, gid) == [id |-> id, gid |-> gid]
    IN  {[tilesets |-> tss, layers |-> ls] :
            tss \in {<<>>, <<Tileset(1, 4)>>, <<Tileset(5, 2), Tileset(1, 4)>>,
                     <<Tileset(0, 0)>>},
            ls \in {<<>>,
                    <<TileL("ground", <<1, 0, 4>>)>>,
                    <<TileL("ground", <<99>>)>>,
                    <<TileL("a", <<0, TileIdOf(4, FALSE, TRUE, FALSE),
                                   TileIdOf(1, TRUE, FALSE, TRUE)>>),
                      TileL("b", <<5, TileIdOf(7, TRUE, TRUE, TRUE), 9>>)>>,
                    <<ObjL("objs", <<Obj(3, Some(99))>>), TileL("late", <<99>>)>>,
                    <<ObjL("marks", <<Obj(1, None), Obj(2, Some(2))>>),
                      [kind |-> "imagelayer", name |-> "sky", data |-> <<>>,
                       objects |-> <<>>],
                      TileL("top", <<TileIdOf(6, TRUE, FALSE, FALSE)>>)>>}}

DecodeMapFile(j, build) ==
    /\ last' = [Call("decode_map_file_to_ir", Pt(0, 0), Pt(0, 0), DefaultCam, 0, <<>>, <<j>>)
                  EXCEPT !.ret = Some(decode_map_file_to_ir(j, build))]
    /\ UNCHANGED <<index, view, mapVars>>

LoadFromStr(raw, build) ==
    /\ last' = [Call("load_from_str", Pt(0, 0), Pt(0, 0), DefaultCam, 0, <<>>, <<raw>>)
                  EXCEPT !.ret = Some(load_from_str(raw, build))]
    /\ UNCHANGED <<index, view, mapVars>>

NextDecode ==
    \/ \E raw \in RawMaps, build \in Builds : LoadFromStr(raw, build)
    \/ \E j \in JsonMaps, build \in Builds : DecodeMapFile(j, build)

SpecDecode == InitIndex /\ [][NextDecode]_vars

----------------------------------------------------------------------------
(* Chunk addressing through add_tile on a fresh index (SpecAddr) *)

\* world positions around chunk boundaries: negative, zero, positive, whole and fractional
AddrPositions ==
    LET AddrXs == {W(-513), W(-512), W(-257), W(-257) + 1, W(-256), W(-1), -1, 0, 1,
                   W(10) + 1, W(255), W(255) + 1, W(256), W(300)}
        AddrYs == {W(-256), W(-256) + 1, W(-1), -1, 0, W(7), W(255) + 1, W(256)}
    IN  {Pt(x, y) : x \in AddrXs, y \in AddrYs}

InitAddr == InitIndex

AddTileAt(world) ==
    /\ index = GlobalIndexNew
    /\ AddTile(1, 0, world)

NextAddr == \E world \in AddrPositions : AddTileAt(world)

SpecAddr == InitAddr /\ [][NextAddr]_vars

----------------------------------------------------------------------------
(* Tiles and objects added to the same layers of the same chunks *)

NextAppend ==
    \/ \E id \in {1} : \E layer \in {0, 1} : \E world \in TilePositions :
          AddTile(id, layer, world)
    \/ \E layer \in {0, 1} : \E chunk \in ObjectChunks : \E h \in {0} :
          InsertObject(layer, chunk, [handle |-> h, rel_pos |-> Pt(0, W(32))])

SpecAppend == InitIndex /\ [][NextAppend]_vars

----------------------------------------------------------------------------
(* A Map assembled as a struct literal inside the crate, as the tests of map.rs do:
   the stamp buffers of its object layer need not match the object count. *)

LiteralObjectCounts == {2}

\* contents of seen_stamp_tiles / seen_stamp_debug in the literal
LiteralBuffers ==
    {<<>>, <<0>>, <<StampMax>>, <<1, StampMax, 1>>, <<StampMax, 1, 0, StampMax>>}

LiteralMap(object_count, visible, tiles, debug, frame_stamp) ==
    LET m == __new_for_stamp_overflow_test(object_count)
    IN  [m EXCEPT !.object_layers[1].visible = visible,
                  !.object_layers[1].seen_stamp_tiles = tiles,
                  !.object_layers[1].seen_stamp_debug = debug,
                  !.renderer.frame_stamp = frame_stamp]

LiteralMaps ==
    {LiteralMap(n, visible, tiles, debug, s0) :
        n \in LiteralObjectCounts, visible \in BOOLEAN,
        tiles \in LiteralBuffers, debug \in LiteralBuffers, s0 \in {0, StampMax}}

InitLiteral ==
    \E m \in LiteralMaps :
        /\ index = m.index
        /\ view = NoView
        /\ tilesets = m.tilesets
        /\ gid_lut = m.gid_lut
        /\ object_layers = m.object_layers
        /\ tile_layers = m.tile_layers
        /\ draw_order = m.draw_order
        /\ layer_kind_by_id = m.layer_kind_by_id
        /\ renderer = m.renderer
        /\ last = NoCall
        /\ stamp_rule = TRUE

SpecLiteral == InitLiteral /\ [][Next]_vars

----------------------------------------------------------------------------
(* Visibility queries on the index (SpecIndex) *)

Coords(v) == {v.chunks[i].coord : i \in DOMAIN v.chunks}

\* the chunk rectangle of a view: the corners' chunks, normalized, with the margin m
ViewChunkRect(view_min, view_max, m) ==
    LET a == world_to_chunk(view_min)
        b == world_to_chunk(view_max)
    IN  [x_min |-> Min(a.x, b.x) - m, x_max |-> Max(a.x, b.x) + m,
         y_min |-> Min(a.y, b.y) - m, y_max |-> Max(a.y, b.y) + m]

InRect(c, r) == r.x_min <= c.x /\ c.x <= r.x_max /\ r.y_min <= c.y /\ c.y <= r.y_max

StrictlyAscending(cs) ==
    \A i, j \in DOMAIN cs : i < j => KeyLT(cs[i], cs[j])

C8_ChunkListStrictlyAscending ==
    /\ StrictlyAscending([i \in DOMAIN view.chunks |-> view.chunks[i].coord])
    /\ StrictlyAscending(last.coords)

\* a query result that holds chunk (1,0) before chunk (0,1) among three or more chunks
C8_Witness ==
    /\ last.op \in {"query_visible_rect", "query_visible"}
    /\ Len(view.chunks) >= 3
    /\ \E i, j \in DOMAIN view.chunks :
          /\ i < j
          /\ view.chunks[i].coord.x > view.chunks[j].coord.x

\* the world rectangle of a view touches no populated chunk (exact floor geometry)
WhollyOutside(view_min, view_max) ==
    LET side == Sub * CHUNK_SIZE
        x_lo == Min(view_min.x, view_max.x) \div side
        x_hi == Max(view_min.x, view_max.x) \div side
        y_lo == Min(view_min.y, view_max.y) \div side
        y_hi == Max(view_min.y, view_max.y) \div side
    IN  \A c \in DOMAIN index.buckets :
            ~(x_lo <= c.x /\ c.x <= x_hi /\ y_lo <= c.y /\ c.y <= y_hi)

\* C10 as stated: a rectangle wholly outside all populated chunks gives an empty list.
C10_OutsideRectIsEmpty ==
    (last.op = "query_visible_rect" /\ WhollyOutside(last.view_min, last.view_max))
        => view.chunks = <<>>

\* C10, amended: query_visible_rect returns an empty list when the chunk rectangle of the
\* view, expanded by the margin of one chunk on every side, holds no populated chunk.
C10_OutsideMarginIsEmpty ==
    (/\ last.op = "query_visible_rect"
     /\ \A c \in DOMAIN index.buckets :
            ~InRect(c, ViewChunkRect(last.view_min, last.view_max, CULL_MARGIN_CHUNKS)))
        => view.chunks = <<>>

\* an empty result on a populated index
C10_Witness ==
    /\ last.op = "query_visible_rect"
    /\ DOMAIN index.buckets # {}
    /\ view.chunks = <<>>

----------------------------------------------------------------------------
(* Frame-stamp deduplication on a loaded Map (Spec) *)

AutoStampOps == {"draw", "draw_objects_tiles", "draw_objects_debug"}
TilePassOps  == {"draw", "draw_objects_tiles", "draw_objects_tiles_with_stamp"}

Count(seq, v) == Cardinality({i \in DOMAIN seq : seq[i] = v})

\* how often the log holds object obj of layer layer_id in pass `pass`
Occurrences(log, pass, layer_id, obj) ==
    Cardinality({i \in DOMAIN log :
        log[i].pass = pass /\ log[i].layer = layer_id /\ log[i].obj = obj})

\* the chunks of the list that hold a record of object obj in the bucket of the layer
VisibleChunksHolding(g, bucket_layer, obj, coords) ==
    {c \in Range(coords) :
        /\ c \in DOMAIN g.buckets
        /\ bucket_layer \in DOMAIN g.buckets[c]
        /\ \E k \in DOMAIN g.buckets[c][bucket_layer].objects :
              g.buckets[c][bucket_layer].objects[k].handle = obj}

ObjectsOf(layer) == 0..(Len(layer.objects) - 1)

\* the objects of a layer that a pass over the chunk list reaches
ReachedObjects(g, layer, coords) ==
    {o \in ObjectsOf(layer) :
        layer.visible /\ VisibleChunksHolding(g, layer.bucket_layer, o, coords) # {}}

DebugPassOps == {"draw", "draw_objects_debug", "draw_objects_debug_with_stamp"}

\* the object layers when the pass of this step starts
LayersAtPassStart ==
    IF last'.op \in AutoStampOps
    THEN next_frame_stamp(renderer, object_layers).object_layers
    ELSE object_layers

\* object o of layer li is processed exactly once in pass `pass` of this step if a chunk
\* of the visible list holds a record of it and it is not already marked, else not at all
OncePerPass(li, o, pass, entry_at_start) ==
    LET layer == object_layers'[li]
        fresh == \/ (last'.op \in AutoStampOps /\ stamp_rule)
                 \/ entry_at_start # last'.stamp
    IN  Occurrences(last'.log, pass, layer.id, o) =
            IF o \in ReachedObjects(index, layer, last'.coords) /\ fresh THEN 1 ELSE 0

\* C1: an object pass (tile pass or debug pass) with one stamp processes an object of a
\* visible layer exactly once when at least one chunk holding a record of it is in the
\* visible list (one such chunk or several), provided the object is not already marked
\* with that stamp, which never is the case for a stamp that next_frame_stamp has just
\* issued; otherwise the pass does not process it.
C1_Step ==
    \A li \in DOMAIN object_layers' : \A o \in ObjectsOf(object_layers'[li]) :
        /\ last'.op \in TilePassOps =>
              OncePerPass(li, o, "O", LayersAtPassStart[li].seen_stamp_tiles[o + 1])
        /\ (last'.op \in DebugPassOps /\ (last'.op = "draw" => renderer.debug_draw)) =>
              OncePerPass(li, o, "D", LayersAtPassStart[li].seen_stamp_debug[o + 1])

C1_ProcessedOncePerPass == [][C1_Step]_vars

\* a draw that reached an object through two or more visible chunks and processed it once
C1_Witness ==
    /\ last.op = "draw"
    /\ \E li \in DOMAIN object_layers : \E o \in ObjectsOf(object_layers[li]) :
          /\ Cardinality(VisibleChunksHolding(index, object_layers[li].bucket_layer, o,
                                              last.coords)) >= 2
          /\ Occurrences(last.log, "O", object_layers[li].id, o) = 1

AllEntries(layers) ==
    UNION {Range(layers[li].seen_stamp_tiles) \cup Range(layers[li].seen_stamp_debug)
             : li \in DOMAIN layers}

\* C2: next_frame_stamp at stamp u32::MAX sets every entry of both last-seen buffers of
\* every object layer to 0 and makes the stamp, and returns, 1; at any other stamp it adds
\* exactly 1, returns the new stamp and changes no last-seen entry.
C2_Step ==
    last'.op = "next_frame_stamp" =>
        IF renderer.frame_stamp = StampMax
        THEN /\ renderer'.frame_stamp = 1
             /\ last'.stamp = 1
             /\ Len(object_layers') = Len(object_layers)
             /\ AllEntries(object_layers') \subseteq {0}
        ELSE /\ renderer'.frame_stamp = renderer.frame_stamp + 1
             /\ last'.stamp = renderer.frame_stamp + 1
             /\ object_layers' = object_layers

C2_NextFrameStamp == [][C2_Step]_vars

\* next_frame_stamp has wrapped on a map that has objects
C2_Witness ==
    /\ last.op = "next_frame_stamp"
    /\ last.before = StampMax
    /\ renderer.frame_stamp = 1
    /\ \E li \in DOMAIN object_layers : object_layers[li].objects # <<>>

\* C3: when every stamp in use was issued by next_frame_stamp, the stamp that
\* next_frame_stamp returns is not 0 and no last-seen entry of any object layer equals it
\* at that moment, also across the overflow.
C3_NewStampIsUnused ==
    stamp_rule =>
        LET r == next_frame_stamp(renderer, object_layers)
        IN  /\ r.ret # 0
            /\ r.ret \notin AllEntries(r.object_layers)

\* a pass under the first stamp after the overflow has marked an object
C3_Witness ==
    /\ stamp_rule
    /\ last.op \in AutoStampOps
    /\ last.before = StampMax
    /\ last.stamp = 1
    /\ 1 \in AllEntries(object_layers)

\* the number of "O" entries of a layer in the log
LayerEntries(log, layer_id) ==
    Cardinality({i \in DOMAIN log : log[i].pass = "O" /\ log[i].layer = layer_id})

\* the draw of this step left stamp s: every reached object, and no other, is marked s
DrawMarked(s) ==
    /\ renderer'.frame_stamp = s
    /\ \A li \in DOMAIN object_layers' :
          LET layer == object_layers'[li]
              N     == Cardinality(ReachedObjects(index, layer, last'.coords))
          IN  /\ Count(layer.seen_stamp_tiles, s) = N
              /\ LayerEntries(last'.log, layer.id) = N
              /\ renderer.debug_draw => Count(layer.seen_stamp_debug, s) = N

\* C4: with the stamp at u32::MAX - 1 a draw leaves the stamp at u32::MAX and exactly the N
\* objects it reaches marked u32::MAX; the next draw leaves the stamp at 1 with exactly the
\* N objects it reaches marked 1 and none marked u32::MAX; both process N objects.
C4_Step ==
    (last'.op = "draw" /\ stamp_rule) =>
        /\ renderer.frame_stamp = StampMax - 1 => DrawMarked(StampMax)
        /\ renderer.frame_stamp = StampMax =>
              /\ DrawMarked(1)
              /\ StampMax \notin AllEntries(object_layers')

C4_StampWraparound == [][C4_Step]_vars

\* the draw after the overflow has marked two or more objects with stamp 1
C4_Witness ==
    /\ stamp_rule
    /\ last.op = "draw"
    /\ last.before = StampMax
    /\ renderer.frame_stamp = 1
    /\ \E li \in DOMAIN object_layers : Count(object_layers[li].seen_stamp_tiles, 1) >= 2

\* no object is in pass `pass` of both logs
NoCommonObject(log1, log2, pass) ==
    \A i \in DOMAIN log1 : \A j \in DOMAIN log2 :
        ~(/\ log1[i].pass = pass /\ log2[j].pass = pass
          /\ log1[i].layer = log2[j].layer /\ log1[i].obj = log2[j].obj)

\* C6: a pass that follows a pass with the same stamp processes none of the objects the
\* first one processed (tile buffer and debug buffer alike).
C6_Step ==
    /\ (last'.op = "draw_objects_tiles_with_stamp" /\ last'.stamp = last.stamp)
          => NoCommonObject(last.log, last'.log, "O")
    /\ (last'.op = "draw_objects_debug_with_stamp" /\ last'.stamp = last.stamp)
          => NoCommonObject(last.log, last'.log, "D")

C6_SameStampPassIsIdempotent == [][C6_Step]_vars

\* a pass that reached an object already marked with its stamp and processed nothing
C6_Witness ==
    /\ last.op = "draw_objects_tiles_with_stamp"
    /\ last.log = <<>>
    /\ \E li \in DOMAIN object_layers :
          \E o \in ReachedObjects(index, object_layers[li], last.coords) :
              object_layers[li].seen_stamp_tiles[o + 1] = last.stamp

\* the position of a layer in the draw order
LayerPos(layer_id) == CHOOSE i \in DOMAIN draw_order : draw_order[i] = layer_id

PassRank(pass) == IF pass = "D" THEN 1 ELSE 0

LexLess(a, b) ==
    \E k \in DOMAIN a : a[k] < b[k] /\ \A j \in 1..(k - 1) : a[j] = b[j]

LogKey(e) == <<LayerPos(e.layer), PassRank(e.pass), e.cc.y, e.cc.x, e.slot>>

\* layers in draw order, chunks by (y, x), records in insertion order
OrderedLog(log) ==
    \A i, j \in DOMAIN log : i < j => LexLess(LogKey(log[i]), LogKey(log[j]))

\* C9: a draw that directly follows a draw with the same view rectangle, all stamps
\* issued by next_frame_stamp, visits the same chunk list and produces the same log of
\* (layer, chunk, record) entries in the same order (layers in draw order, chunks by
\* (y, x), records in insertion order) under a different stamp.
C9_Step ==
    (/\ last.op = "draw" /\ last'.op = "draw" /\ stamp_rule
     /\ last'.view_min = last.view_min /\ last'.view_max = last.view_max)
        => /\ last'.coords = last.coords
           /\ last'.log = last.log
           /\ last'.stamp # last.stamp
           /\ OrderedLog(last'.log)

C9_DrawSequenceIsDeterministic == [][C9_Step]_vars

\* a draw after the first frame whose log spans two layers and two chunks
C9_Witness ==
    /\ stamp_rule
    /\ last.op = "draw"
    /\ last.before >= 1
    /\ \E i, j \in DOMAIN last.log :
          /\ last.log[i].layer # last.log[j].layer
          /\ last.log[i].cc # last.log[j].cc
    /\ \E i, j \in DOMAIN last.log :
          /\ last.log[i].layer = last.log[j].layer
          /\ last.log[i].cc # last.log[j].cc

----------------------------------------------------------------------------
(* Realignment of the stamp buffers (SpecLiteral) *)

StampOps ==
    {"next_frame_stamp", "draw", "draw_objects_tiles", "draw_objects_debug",
     "draw_objects_tiles_with_stamp", "draw_objects_debug_with_stamp"}

\* entry k of a buffer after Vec::resize to the object count: kept, or a new slot
Kept(buffer, k) == IF k <= Len(buffer) THEN buffer[k] ELSE 0

\* new is old resized, and only marking with stamp or the overflow reset changed entries
Realigned(old, new, n, stamp, reset) ==
    /\ Len(new) = n
    /\ \A k \in 1..n :
          \/ new[k] = Kept(old, k)
          \/ new[k] = stamp
          \/ reset /\ new[k] = 0

\* new is exactly old resized
Resized(old, new, n) ==
    /\ Len(new) = n
    /\ \A k \in 1..n : new[k] = Kept(old, k)

\* C5: after next_frame_stamp and after every object pass both last-seen arrays of every
\* layer have exactly as many entries as the layer has objects; a shorter array was grown
\* with slots equal to 0, a longer one truncated, and the entries that stay keep their
\* value unless the pass marked them or the overflow reset them.
C5_Step ==
    last'.op \in StampOps =>
        \A li \in DOMAIN object_layers' :
            LET old   == object_layers[li]
                new   == object_layers'[li]
                n     == Len(new.objects)
                reset == last'.op \in AutoStampOps \cup {"next_frame_stamp"}
                            /\ renderer.frame_stamp = StampMax
            IN  /\ Realigned(old.seen_stamp_tiles, new.seen_stamp_tiles, n, last'.stamp, reset)
                /\ Realigned(old.seen_stamp_debug, new.seen_stamp_debug, n, last'.stamp, reset)
                /\ (last'.op = "next_frame_stamp" /\ ~reset) =>
                      /\ Resized(old.seen_stamp_tiles, new.seen_stamp_tiles, n)
                      /\ Resized(old.seen_stamp_debug, new.seen_stamp_debug, n)
                /\ last'.op = "draw_objects_tiles_with_stamp" =>
                      Resized(old.seen_stamp_debug, new.seen_stamp_debug, n)
                /\ last'.op = "draw_objects_debug_with_stamp" =>
                      Resized(old.seen_stamp_tiles, new.seen_stamp_tiles, n)

C5_BuffersRealigned == [][C5_Step]_vars

\* a call found one buffer too short and the other too long, with a nonzero entry kept
C5_Witness ==
    /\ last.op \in StampOps
    /\ \E li \in DOMAIN object_layers :
          LET n == Len(object_layers[li].objects)
          IN  /\ last.lens[li].tiles < n
              /\ last.lens[li].tiles > 0
              /\ last.lens[li].debug > n
              /\ Len(object_layers[li].seen_stamp_tiles) = n
              /\ Len(object_layers[li].seen_stamp_debug) = n
              /\ object_layers[li].seen_stamp_tiles[1] = StampMax
              /\ last.stamp # StampMax

----------------------------------------------------------------------------
(* Corner normalization of the draw API (Spec) *)

ViewOps ==
    {"draw", "draw_objects_tiles", "draw_objects_debug",
     "draw_objects_tiles_with_stamp", "draw_objects_debug_with_stamp"}

\* the corners of a view rectangle in min/max order
MinCorner(a, b) == Pt(Min(a.x, b.x), Min(a.y, b.y))
MaxCorner(a, b) == Pt(Max(a.x, b.x), Max(a.y, b.y))

\* C11: every draw method visits the set of chunks that the same call with the corners in
\* min/max order visits, for every cull padding; draw_visible_rect draws what the call
\* with the corners in min/max order draws.
C11_Step ==
    LET lo == MinCorner(last'.view_min, last'.view_max)
        hi == MaxCorner(last'.view_min, last'.view_max)
    IN  /\ last'.op \in ViewOps =>
              Range(last'.coords) = Range(visible_coords_for_draw(renderer, lo, hi))
        /\ last'.op = "draw_visible_rect" =>
              \E order \in Perms(DOMAIN index.buckets) :
                  last'.log = draw_visible_rect(Self, order, lo, hi)

C11_CornersNormalized == [][C11_Step]_vars

----------------------------------------------------------------------------
(* Camera query against rectangle query (SpecIndex) *)

\* the world rectangle a camera shows: target -/+ viewport / zoom / 2
CameraRect(cam) ==
    LET half_w == FDiv(cam.viewport.w, cam.zoom.x) \div 2
        half_h == FDiv(cam.viewport.h, cam.zoom.y) \div 2
    IN  [min |-> Pt(cam.target.x - half_w, cam.target.y - half_h),
         max |-> Pt(cam.target.x + half_w, cam.target.y + half_h)]

\* C12: query_visible returns the ordered chunk list that query_visible_rect returns for
\* the world rectangle that the camera's target, zoom and viewport describe.
C12_CameraQueryEqualsRectQuery ==
    last.op = "query_visible" =>
        \E order \in Perms(DOMAIN index.buckets) :
            view = query_visible_rect(index, order,
                                      CameraRect(last.cam).min, CameraRect(last.cam).max)

----------------------------------------------------------------------------
(* The index built at load time (SpecLoad) *)

\* the chunk that holds world coordinate v: floor of v / CHUNK_SIZE
FloorChunk(v) == v \div (Sub * CHUNK_SIZE)

\* the chunks that the axis-aligned bounding box of an object overlaps
AabbChunks(obj, layer_offset) ==
    LET bb == object_aabb_world(obj, layer_offset)
    IN  {[x |-> cx, y |-> cy] :
            cx \in FloorChunk(bb.min.x)..FloorChunk(bb.max.x),
            cy \in FloorChunk(bb.min.y)..FloorChunk(bb.max.y)}

\* the slots of the records of object o in the object bucket of chunk c and a layer
RecordsOf(g, c, bucket_layer, o) ==
    IF c \notin DOMAIN g.buckets THEN {}
    ELSE IF bucket_layer \notin DOMAIN g.buckets[c] THEN {}
    ELSE {k \in DOMAIN g.buckets[c][bucket_layer].objects :
            g.buckets[c][bucket_layer].objects[k].handle = o}

\* chunk c holds exactly one record of object o of the layer, and the record rebuilds
\* the world position of the object
OneRecordAt(layer, o, c) ==
    LET obj   == layer.objects[o + 1]
        slots == RecordsOf(index, c, layer.bucket_layer, o)
    IN  /\ Cardinality(slots) = 1
        /\ \A k \in slots :
              VAdd(chunk_origin(c), index.buckets[c][layer.bucket_layer].objects[k].rel_pos)
                 = VAdd(Pt(obj.x, obj.y), layer.offset)

\* C13: after Map::from_ir, every chunk that the bounding box of an object overlaps
\* holds exactly one record of the object in the bucket of the object's layer, and the
\* chunk origin plus the record's relative position is the object's world position.
C13_OneRecordPerSpannedChunk ==
    last.op = "from_ir" =>
        \A li \in DOMAIN object_layers : \A o \in ObjectsOf(object_layers[li]) :
            \A c \in AabbChunks(object_layers[li].objects[o + 1], object_layers[li].offset) :
                OneRecordAt(object_layers[li], o, c)

----------------------------------------------------------------------------
(* Tile handles of the global index (SpecIndex) *)

\* the slots <<chunk, layer, position>> of all tile records of the index
TileSlots(g) ==
    UNION {UNION {{<<c, l, k>> : k \in DOMAIN g.buckets[c][l].tiles}
                    : l \in DOMAIN g.buckets[c]}
             : c \in DOMAIN g.buckets}

\* the slots of the tile records that carry handle h
SlotsOfHandle(g, h) ==
    {t \in TileSlots(g) : g.buckets[t[1]][t[2]].tiles[t[3]].handle = h}

\* handle h has a descriptor, and it points at the one record that carries h
LiveDescriptor(g, h) ==
    /\ h + 1 \in DOMAIN g.handles
    /\ g.handles[h + 1].some
    /\ LET loc == g.handles[h + 1].val
       IN  SlotsOfHandle(g, h) = {<<loc.chunk, loc.layer, loc.index + 1>>}

\* C14: after every add_tile and insert_object, every handle returned so far has a
\* location descriptor, the descriptor points at the one tile record that carries the
\* handle, descriptors of earlier handles stay as they were, and the handle returned by
\* add_tile(world) is stored in chunk world_to_chunk(world).
C14_Step ==
    last'.op \in {"add_tile", "insert_object"} =>
        /\ \A h \in 0..(index'.next_handle - 1) : LiveDescriptor(index', h)
        /\ \A h \in 0..(index.next_handle - 1) : index'.handles[h + 1] = index.handles[h + 1]
        /\ last'.op = "add_tile" =>
              /\ LiveDescriptor(index', last'.stamp)
              /\ index'.handles[last'.stamp + 1].val.chunk = world_to_chunk(last'.view_min)

C14_HandlesHaveLiveDescriptors == [][C14_Step]_vars

\* a second tile was added to a bucket that shares its chunk with an object record
C14_Witness ==
    /\ last.op = "add_tile"
    /\ index.handles[last.stamp + 1].some
    /\ index.handles[last.stamp + 1].val.index = 1
    /\ \E c \in DOMAIN index.buckets : \E l \in DOMAIN index.buckets[c] :
          /\ c = index.handles[last.stamp + 1].val.chunk
          /\ index.buckets[c][l].objects # <<>>

\* C15: add_tile returns the number of add_tile calls made before it, a handle that no
\* stored record carries yet; and after every operation the length of the handle table,
\* the next-handle counter and the number of tile records in all buckets are equal.
C15_Step ==
    /\ last'.op = "add_tile" =>
          /\ last'.stamp = Cardinality(TileSlots(index))
          /\ SlotsOfHandle(index, last'.stamp) = {}
    /\ Len(index'.handles) = index'.next_handle
    /\ index'.next_handle = Cardinality(TileSlots(index'))

C15_HandlesNeverReused == [][C15_Step]_vars

\* two add_tile calls and an insert_object have been made
C15_Witness ==
    /\ last.op = "add_tile"
    /\ last.stamp = 1
    /\ index.next_handle = 2
    /\ ObjectRecordCount(index, DOMAIN index.buckets) >= 1

----------------------------------------------------------------------------
(* Chunk addressing (SpecAddr) *)

\* the tile record that the descriptor of handle h points at
RecordOfHandle(g, h) ==
    LET loc == g.handles[h + 1].val
    IN  g.buckets[loc.chunk][loc.layer].tiles[loc.index + 1]

\* C16: for the position p passed to add_tile, world_to_chunk(p) is the floor division of
\* each coordinate by CHUNK_SIZE and chunk_origin(world_to_chunk(p)) + rel(p) = p.
C16_ChunkAndRelRebuildPosition ==
    last.op = "add_tile" =>
        LET p == last.view_min
        IN  /\ world_to_chunk(p) = [x |-> FloorChunk(p.x), y |-> FloorChunk(p.y)]
            /\ VAdd(chunk_origin(world_to_chunk(p)), rel(p)) = p

\* a coordinate lies in [0, CHUNK_SIZE)
InsideChunk(v) == 0 <= v /\ v < W(CHUNK_SIZE)

\* C17: for the position p passed to add_tile, both coordinates of rel(p) lie in
\* [0, CHUNK_SIZE), and so do those of the relative position of the stored tile record.
C17_RelInsideChunk ==
    last.op = "add_tile" =>
        /\ InsideChunk(rel(last.view_min).x)
        /\ InsideChunk(rel(last.view_min).y)
        /\ InsideChunk(RecordOfHandle(index, last.stamp).rel_pos.x)
        /\ InsideChunk(RecordOfHandle(index, last.stamp).rel_pos.y)

\* a tile was added at a negative position that is not on a chunk boundary
C17_Witness ==
    /\ last.op = "add_tile"
    /\ last.view_min.x < 0
    /\ last.view_min.y < 0
    /\ RecordOfHandle(index, last.stamp).rel_pos.x > 0
    /\ RecordOfHandle(index, last.stamp).rel_pos.y > 0

----------------------------------------------------------------------------
(* Tileset resolution (SpecLoad) *)

\* C18: ts_for_gid returns none when the clean identifier is 0, is not below the length of
\* the table, or maps to the sentinel, and otherwise the owning tileset with
\* local = clean - first_gid; for the single tileset (first_gid 1, tilecount 4),
\* 1 resolves to local 0, 4 to local 3 and 5 to none.
C18_ResolveContract ==
    last.op = "ts_for_gid" =>
        LET c == clean(last.gid) IN
        /\ IF c = 0 \/ c >= Len(gid_lut) \/ gid_lut[c + 1] = LUT_NONE
           THEN last.ret = None
           ELSE last.ret = Some([ts |-> gid_lut[c + 1],
                                 local |-> c - tilesets[gid_lut[c + 1] + 1].first_gid])
        /\ tilesets = <<Tileset(1, 4)>> =>
              /\ last.gid = 1 => last.ret = Some([ts |-> 0, local |-> 0])
              /\ last.gid = 4 => last.ret = Some([ts |-> 0, local |-> 3])
              /\ last.gid = 5 => last.ret = None

\* the positions (from 0) of the tilesets whose range [first_gid, first_gid + tilecount)
\* holds the identifier
OwnersOf(tss, gid) ==
    {i - 1 : i \in {j \in DOMAIN tss :
                      tss[j].first_gid <= gid /\ gid < tss[j].first_gid + tss[j].tilecount}}

\* the largest element of a non-empty set of integers
SetMax(S) == CHOOSE m \in S : \A n \in S : n <= m

\* max(first_gid + tilecount - 1) over the tilesets, 0 for none
MaxGidOf(tss) == SetMax({0} \cup {tss[i].first_gid + tss[i].tilecount - 1 : i \in DOMAIN tss})

\* C19: construction never fails, and once the map is constructed the table has
\* max_gid + 1 entries; the entry of an identifier that lies in some tileset's range holds
\* the position of the last such tileset in the list, every other entry holds the sentinel.
C19_TableShape ==
    /\ last.op # "from_ir_panic"
    /\ last.op \in {"from_ir", "ts_for_gid"} =>
          /\ Len(gid_lut) = MaxGidOf(tilesets) + 1
          /\ \A gid \in 0..(Len(gid_lut) - 1) :
                gid_lut[gid + 1] =
                    IF OwnersOf(tilesets, gid) = {} THEN LUT_NONE
                    ELSE SetMax(OwnersOf(tilesets, gid))

\* C20: ts_for_gid on a constructed map reads the table and the tileset list inside their
\* bounds and subtracts without underflow, for every raw identifier; a tileset it returns
\* has first_gid <= clean identifier and 0 <= local < tilecount.
C20_ResolveTotal ==
    last.op = "ts_for_gid" =>
        LET c == clean(last.gid) IN
        /\ (c < Len(gid_lut) /\ gid_lut[c + 1] # LUT_NONE) =>
              /\ gid_lut[c + 1] < Len(tilesets)
              /\ tilesets[gid_lut[c + 1] + 1].first_gid <= c
        /\ last.ret.some =>
              LET ts == tilesets[last.ret.val.ts + 1] IN
              /\ ts.first_gid <= c
              /\ 0 <= last.ret.val.local
              /\ last.ret.val.local < ts.tilecount

\* an identifier with flip flags resolved to the second of two overlapping tilesets
C20_Witness ==
    /\ last.op = "ts_for_gid"
    /\ last.gid > GID_MASK
    /\ last.ret.some
    /\ last.ret.val.ts = 1
    /\ Cardinality(OwnersOf(tilesets, clean(last.gid))) > 1

----------------------------------------------------------------------------
(* Tile identifier codec (SpecCodec) *)

\* C21: for the identifier built from index i < 2^29 and flags (h, v, d), clean() is i and
\* flip_h, flip_v, flip_d are exactly h, v, d; in particular with all three flags set.
C21_CodecRoundTrip ==
    last.op = "decode" =>
        /\ last.ret.val.clean = last.stamp
        /\ <<last.ret.val.flip_h, last.ret.val.flip_v, last.ret.val.flip_d>> = last.coords

\* index GID_MASK with all three flags set has been decoded
C21_Witness ==
    /\ last.op = "decode"
    /\ last.stamp = GID_MASK
    /\ last.coords = <<TRUE, TRUE, TRUE>>
    /\ last.gid = -1

\* C22: for every identifier, flip_x is flip_h XOR flip_d and flip_y is flip_v, whatever
\* the index bits are.
C22_DerivedFlips ==
    last.op = "decode" =>
        /\ last.ret.val.params.flip_x = (last.coords[1] # last.coords[3])
        /\ last.ret.val.params.flip_y = last.coords[2]

\* horizontal and diagonal both set on a non-zero index: flip_x is false
C22_Witness ==
    /\ last.op = "decode"
    /\ last.stamp > 0
    /\ last.coords[1] /\ last.coords[3]
    /\ ~last.ret.val.params.flip_x

\* C23: the rotation is 0 with no flags, 90 with horizontal and diagonal but no vertical,
\* 180 with all three, and otherwise 0 when horizontal is clear and 90 when it is set.
C23_RotationTable ==
    last.op = "decode" =>
        LET h == last.coords[1]
            v == last.coords[2]
            d == last.coords[3]
            rotation == last.ret.val.params.rotation
        IN  /\ (~h /\ ~v /\ ~d) => rotation = 0
            /\ (h /\ ~v /\ d) => rotation = 90
            /\ (h /\ v /\ d) => rotation = 180
            /\ ~(h /\ v /\ d) => rotation = (IF h THEN 90 ELSE 0)
            /\ rotation \in {0, 90, 180}

\* all three flags set: half a turn
C23_Witness ==
    /\ last.op = "decode"
    /\ last.coords = <<TRUE, TRUE, TRUE>>
    /\ last.ret.val.params.rotation = 180

----------------------------------------------------------------------------
(* Frame stamp progression (Spec) *)

\* the calls that acquire a frame stamp, and the calls that take or need none
StampingOps == {"draw", "draw_objects_tiles", "draw_objects_debug"}
NonStampingOps ==
    {"draw_visible_rect", "draw_objects_tiles_with_stamp", "draw_objects_debug_with_stamp"}

\* every constructed map starts with frame stamp 0
FreshStampIsZero ==
    /\ \A ir \in IrMaps : from_ir(ir).renderer.frame_stamp = 0
    /\ \A n \in TestObjectCounts : __new_for_stamp_overflow_test(n).renderer.frame_stamp = 0

\* C24: a constructed map has frame stamp 0; draw, draw_objects_tiles and
\* draw_objects_debug at a stamp below u32::MAX add exactly 1 to it and use the new stamp;
\* draw_visible_rect and the _with_stamp methods leave it unchanged.
C24_Step ==
    /\ FreshStampIsZero
    /\ (last'.op \in StampingOps /\ renderer.frame_stamp < StampMax) =>
          /\ renderer'.frame_stamp = renderer.frame_stamp + 1
          /\ last'.stamp = renderer'.frame_stamp
    /\ last'.op \in NonStampingOps => renderer'.frame_stamp = renderer.frame_stamp

C24_StampAdvancesOncePerDraw == [][C24_Step]_vars

\* a second stamping call in a row has moved the stamp from 1 to 2
C24_Witness ==
    /\ last.op = "draw_objects_debug"
    /\ last.before = 1
    /\ renderer.frame_stamp = 2
    /\ last.stamp = 2

----------------------------------------------------------------------------
(* Draw order (SpecLoad) *)

\* the number of layers of the kind before position i of the layer array
KindBefore(kinds, i, kind) == Cardinality({j \in 1..(i - 1) : kinds[j] = kind})

\* C25: after from_ir, draw_order is 0, 1, .., n-1 for the n layers of the map; the layer
\* at position i is keyed by i and is Tiles(k) or Objects(k) with k the number of earlier
\* layers of the same kind, or Unsupported, which takes no index of either kind.
C25_DrawOrderIsLayerOrder ==
    last.op = "from_ir" =>
        LET kinds == last.log
            n == Len(kinds)
        IN  /\ draw_order = [i \in 1..n |-> i - 1]
            /\ DOMAIN layer_kind_by_id = 0..(n - 1)
            /\ \A i \in 1..n :
                  layer_kind_by_id[i - 1] =
                      IF kinds[i] = "Unsupported" THEN [kind |-> "Unsupported", idx |-> 0]
                      ELSE [kind |-> kinds[i], idx |-> KindBefore(kinds, i, kinds[i])]

\* a map with an unsupported layer first and two tile layers around an object layer
C25_Witness ==
    /\ last.op = "from_ir"
    /\ last.log = <<"Unsupported", "Tiles", "Objects", "Tiles">>
    /\ layer_kind_by_id[3] = [kind |-> "Tiles", idx |-> 1]
    /\ layer_kind_by_id[2] = [kind |-> "Objects", idx |-> 0]

----------------------------------------------------------------------------
(* Map::load_from_str (SpecDecode) *)

\* the positions of the layers whose data length is not width * height; the dimensions of
\* the model are small or 65536 each, so the product is compared through a division
WrongSizeLayers(raw) ==
    {i \in DOMAIN raw.layers :
        \/ Len(raw.layers[i].data) % raw.width # 0
        \/ Len(raw.layers[i].data) \div raw.width # raw.height}

SetMin(S) == CHOOSE m \in S : \A n \in S : m <= n

\* C27: load_from_str checks, in this order, a zero map dimension (InvalidLayerSize), an
\* empty layer list (NoLayer) and each layer's data length against width * height in layer
\* order (InvalidLayerSize with the name of the first such layer); the first failing check
\* gives the error and no Map, and a Map is returned only when no check fails.
C27_LoadFromStrErrors ==
    last.op = "load_from_str" =>
        LET raw == last.log[1]
            r   == last.ret.val
        IN  IF raw.width = 0 \/ raw.height = 0
            THEN r.kind = "Err" /\ r.error = "InvalidLayerSize"
            ELSE IF raw.layers = <<>>
            THEN r.kind = "Err" /\ r.error = "NoLayer"
            ELSE IF WrongSizeLayers(raw) # {}
            THEN /\ r.kind = "Err"
                 /\ r.error = "InvalidLayerSize"
                 /\ r.name = raw.layers[SetMin(WrongSizeLayers(raw))].name
            ELSE r.kind = "Ok"

----------------------------------------------------------------------------
(* Identifier validation of the decoder (SpecDecode) *)

\* the tile-layer identifiers, as (layer position, data position), whose cleaned value is
\* not 0 and exceeds the maximum known identifier
TileGidsOutOfRange(j) ==
    {p \in {<<i, k>> : i \in DOMAIN j.layers, k \in 1..3} :
        /\ j.layers[p[1]].kind = "tilelayer"
        /\ p[2] \in DOMAIN j.layers[p[1]].data
        /\ clean(j.layers[p[1]].data[p[2]]) # 0
        /\ clean(j.layers[p[1]].data[p[2]]) > MaxGidOf(j.tilesets)}

\* C26: the decoder rejects a map that has a tile-layer identifier whose cleaned value is
\* not 0 and exceeds the maximum known identifier, with InvalidTileGid naming such a
\* layer, its cleaned identifier and the maximum; a map whose tile-layer identifiers are
\* all 0 or in range after cleaning is not rejected with InvalidTileGid and does not fail.
C26_InvalidTileGidRejected ==
    last.op = "decode_map_file_to_ir" =>
        LET j == last.log[1]
            r == last.ret.val
        IN  IF TileGidsOutOfRange(j) # {}
            THEN /\ r.kind = "Err"
                 /\ r.error = "InvalidTileGid"
                 /\ r.max_gid = MaxGidOf(j.tilesets)
                 /\ \E p \in TileGidsOutOfRange(j) :
                       /\ r.layer = j.layers[p[1]].name
                       /\ r.gid = clean(j.layers[p[1]].data[p[2]])
            ELSE /\ r.kind # "Panic"
                 /\ r.kind = "Err" => r.error # "InvalidTileGid"

----------------------------------------------------------------------------
(* Independence of the tile pass and the debug pass (Spec) *)

\* object o of layer li is in pass `pass` of the log of this step exactly once if the pass
\* reaches it and its entry in that pass's own buffer was not the stamp, else not at all
OnceByOwnBuffer(li, o, pass, own_entry) ==
    Occurrences(last'.log, pass, object_layers'[li].id, o) =
        IF o \in ReachedObjects(index, object_layers'[li], last'.coords)
              /\ own_entry # last'.stamp
        THEN 1 ELSE 0

\* C28: with one stamp, whether the debug pass processes an object depends on the debug
\* buffer alone and the pass leaves the tile buffer as it was, and the same for the tile
\* pass with the buffers exchanged; a draw with the debug overlay on processes every
\* reached object once in each of the two passes.
C28_Step ==
    \A li \in DOMAIN object_layers' : \A o \in ObjectsOf(object_layers'[li]) :
        /\ last'.op = "draw_objects_debug_with_stamp" =>
              /\ OnceByOwnBuffer(li, o, "D", object_layers[li].seen_stamp_debug[o + 1])
              /\ object_layers'[li].seen_stamp_tiles = object_layers[li].seen_stamp_tiles
        /\ last'.op = "draw_objects_tiles_with_stamp" =>
              /\ OnceByOwnBuffer(li, o, "O", object_layers[li].seen_stamp_tiles[o + 1])
              /\ object_layers'[li].seen_stamp_debug = object_layers[li].seen_stamp_debug
        /\ (last'.op = "draw" /\ renderer.debug_draw /\ stamp_rule
              /\ o \in ReachedObjects(index, object_layers'[li], last'.coords)) =>
              /\ Occurrences(last'.log, "O", object_layers'[li].id, o) = 1
              /\ Occurrences(last'.log, "D", object_layers'[li].id, o) = 1

C28_PassesDoNotSuppressEachOther == [][C28_Step]_vars

\* a debug pass has processed an object that the tile pass had marked with the same stamp
C28_Witness ==
    /\ last.op = "draw_objects_debug_with_stamp"
    /\ last.stamp = renderer.frame_stamp
    /\ last.stamp > 0
    /\ \E li \in DOMAIN object_layers : \E o \in ObjectsOf(object_layers[li]) :
          /\ object_layers[li].seen_stamp_tiles[o + 1] = last.stamp
          /\ Occurrences(last.log, "D", object_layers[li].id, o) = 1

----------------------------------------------------------------------------
(* Culling of loaded objects (Spec) *)

\* the closed boxes [a.min, a.max] and [lo, hi] share a point
BoxesIntersect(a, lo, hi) ==
    /\ a.min.x <= hi.x /\ lo.x <= a.max.x
    /\ a.min.y <= hi.y /\ lo.y <= a.max.y

\* C29: in a draw, every object of a visible object layer whose bounding box intersects the
\* view rectangle has a record in a chunk of the visible list and is processed exactly once
\* (stamps passed by callers so far having been current ones).
C29_Step ==
    (last'.op = "draw" /\ stamp_rule) =>
        \A li \in DOMAIN object_layers' : \A o \in ObjectsOf(object_layers'[li]) :
            LET layer == object_layers'[li] IN
            (/\ layer.visible
             /\ BoxesIntersect(object_aabb_world(layer.objects[o + 1], layer.offset),
                               MinCorner(last'.view_min, last'.view_max),
                               MaxCorner(last'.view_min, last'.view_max))) =>
                /\ VisibleChunksHolding(index, layer.bucket_layer, o, last'.coords) # {}
                /\ Occurrences(last'.log, "O", layer.id, o) = 1

C29_CullingNeverHidesObject == [][C29_Step]_vars

----------------------------------------------------------------------------
(* Append-only index (SpecAppend) *)

\* s is an initial part of t
IsPrefix(s, t) == Len(s) <= Len(t) /\ SubSeq(t, 1, Len(s)) = s

\* every chunk, layer bucket, tile record and object record of g is in h, at the same slot
BucketsKept(g, h) ==
    \A cc \in DOMAIN g.buckets :
        /\ cc \in DOMAIN h.buckets
        /\ \A l \in DOMAIN g.buckets[cc] :
              /\ l \in DOMAIN h.buckets[cc]
              /\ IsPrefix(g.buckets[cc][l].tiles, h.buckets[cc][l].tiles)
              /\ IsPrefix(g.buckets[cc][l].objects, h.buckets[cc][l].objects)

\* C30: after add_tile and insert_object every tile record, object record and location
\* descriptor stored before the call is unchanged at its slot and no chunk or layer bucket
\* is gone; insert_object leaves the handle table and the next-handle counter as they were
\* and adds exactly one object record, at the end of the bucket of the given chunk and layer.
C30_Step ==
    last'.op \in {"add_tile", "insert_object"} =>
        /\ BucketsKept(index, index')
        /\ IsPrefix(index.handles, index'.handles)
        /\ last'.op = "insert_object" =>
              /\ index'.handles = index.handles
              /\ index'.next_handle = index.next_handle
              /\ ObjectRecordCount(index', DOMAIN index'.buckets)
                    = ObjectRecordCount(index, DOMAIN index.buckets) + 1
              /\ Len(BucketOf(index', last'.coords[1], last'.stamp).objects)
                    = Len(BucketOf(index, last'.coords[1], last'.stamp).objects) + 1

C30_IndexAppendOnly == [][C30_Step]_vars

\* an object record was added to a layer bucket that holds a tile record and an earlier
\* object record
C30_Witness ==
    /\ last.op = "insert_object"
    /\ BucketOf(index, last.coords[1], last.stamp).tiles # <<>>
    /\ Len(BucketOf(index, last.coords[1], last.stamp).objects) = 2

====
